---- MODULE Spec2Model ----
(***************************************************************************)
(* Subscription manager backend: the subscription routes                   *)
(* (parseQueryParams, validateSubscriptionInput, the /api/subscriptions    *)
(* handlers) and the auth middleware in front of them, over a store of     *)
(* users and subscriptions.                                                *)
(*                                                                         *)
(* JavaScript values are tagged records: [t |-> "undefined"],              *)
(* [t |-> "null"], [t |-> "boolean", v |-> b], [t |-> "number", v |-> h]   *)
(* with h the number in hundredths (1599 is 15.99), [t |-> "nan"], and     *)
(* [t |-> "string", v |-> s] with s the sequence of the string's           *)
(* characters. An optional value is a sequence of length 0 or 1.           *)
(***************************************************************************)
EXTENDS Integers, Sequences, FiniteSets, TLC

VARIABLES
    query,      \* req.query handed to parseQueryParams
    params,     \* <<descriptor>> once parseQueryParams returned, else <<>>
    vdata,      \* the body handed to validateSubscriptionInput
    vmode,      \* its isUpdate argument
    vresult,    \* <<{isValid, errors, sanitizedData}>> once it returned
    store,      \* subscription table: id -> <<record>> or <<>>
    nextId,     \* next identifier the table hands out
    reqs,       \* the requests in flight, by slot
    issued,     \* number of requests received so far
    listUser,   \* req.user.id of the list request of SpecList
    listed,     \* <<result>> of that list request, else <<>>
    now,        \* the clock reading of the analytics request of SpecAnalytics
    billing,    \* <<[date, cycle]>>: the arguments of calculateNextBillingDate
    advanced,   \* <<outcome>> once it returned or threw
    users,      \* the users table: a set of records
    regs,       \* the requests to the auth routes in flight, by slot
    transactions \* the transactions table: a set of records

vars == <<query, params, vdata, vmode, vresult, store, nextId, reqs, issued,
          listUser, listed, now, billing, advanced, users, regs, transactions>>

-----------------------------------------------------------------------------
(* Bounds of the model *)

\* longest raw page / limit string
MaxRawLen == 3
\* subscriptions the table can hold
MaxSubs == 2
\* requests received in one run of SpecStore
MaxStoreIssued == 3
\* requests received in one run of SpecSerial
MaxSerialIssued == 2
\* requests the server handles at the same time
MaxSlots == 2
\* requests received in one run
MaxIssued == 3

-----------------------------------------------------------------------------
(* JavaScript values *)

Undefined == [t |-> "undefined"]
Null == [t |-> "null"]
NaN == [t |-> "nan"]
Str(s) == [t |-> "string", v |-> s]
Num(h) == [t |-> "number", v |-> h]
Bool(b) == [t |-> "boolean", v |-> b]

IsStr(x) == x.t = "string"

\* ToBoolean: what `if (x)`, `!x` and `x || d` test
Truthy(x) ==
    CASE x.t = "undefined" -> FALSE
      [] x.t = "null" -> FALSE
      [] x.t = "nan" -> FALSE
      [] x.t = "boolean" -> x.v
      [] x.t = "number" -> x.v # 0
      [] x.t = "string" -> x.v # <<>>
      [] OTHER -> TRUE

Digits == <<"0", "1", "2", "3", "4", "5", "6", "7", "8", "9">>

IsDigit(c) == \E i \in 1..10 : Digits[i] = c

DigitVal(c) == (CHOOSE i \in 1..10 : Digits[i] = c) - 1

IsSpace(c) == c = " "

\* String.prototype.trim
RECURSIVE TrimLeft(_)
TrimLeft(s) == IF s # <<>> /\ IsSpace(s[1]) THEN TrimLeft(Tail(s)) ELSE s

RECURSIVE TrimRight(_)
TrimRight(s) ==
    IF s # <<>> /\ IsSpace(s[Len(s)]) THEN TrimRight(SubSeq(s, 1, Len(s) - 1)) ELSE s

Trim(s) == TrimRight(TrimLeft(s))

\* number of leading decimal digits of s
RECURSIVE DigitRun(_)
DigitRun(s) == IF s # <<>> /\ IsDigit(s[1]) THEN 1 + DigitRun(Tail(s)) ELSE 0

\* value of the decimal numeral s (all digits)
RECURSIVE DigitsValue(_)
DigitsValue(s) ==
    IF s = <<>> THEN 0
    ELSE 10 * DigitsValue(SubSeq(s, 1, Len(s) - 1)) + DigitVal(s[Len(s)])

\* parseInt(x) with no radix: leading white space, a sign, the longest run of
\* decimal digits; NaN when there is none. A number is truncated.
parseInt(x) ==
    IF x.t = "number" THEN [nan |-> FALSE, n |-> IF x.v >= 0 THEN x.v \div 100 ELSE -((-x.v) \div 100)]
    ELSE IF x.t # "string" THEN [nan |-> TRUE, n |-> 0]
    ELSE LET t == TrimLeft(x.v)
             signed == t # <<>> /\ t[1] \in {"-", "+"}
             body == IF signed THEN Tail(t) ELSE t
             k == DigitRun(body)
             mag == DigitsValue(SubSeq(body, 1, k))
         IN IF k = 0 THEN [nan |-> TRUE, n |-> 0]
            ELSE [nan |-> FALSE, n |-> IF signed /\ t[1] = "-" THEN -mag ELSE mag]

\* `parseInt(x) || d`: NaN and 0 are falsy
OrDefault(p, d) == IF p.nan \/ p.n = 0 THEN d ELSE p.n

Max(a, b) == IF a >= b THEN a ELSE b
Min(a, b) == IF a <= b THEN a ELSE b

-----------------------------------------------------------------------------
(* parseQueryParams *)

DefaultPage == 1
DefaultLimit == 10
MaxLimit == 100

validSortFields ==
    << <<"s","e","r","v","i","c","e","N","a","m","e">>,
       <<"c","o","s","t">>,
       <<"n","e","x","t","B","i","l","l","i","n","g","D","a","t","e">>,
       <<"c","r","e","a","t","e","d","A","t">>,
       <<"u","p","d","a","t","e","d","A","t">> >>

validSortOrder == << <<"a","s","c">>, <<"d","e","s","c">> >>

\* mutant: any non-empty string passes the whitelist
Includes_anyString(list, x) == IsStr(x) /\ x.v # <<>>

\* Array.prototype.includes: strict equality with an element
Includes(list, x) == IsStr(x) /\ \E i \in 1..Len(list) : list[i] = x.v

\* a destructuring default applies to undefined only
WithDefault(x, d) == IF x.t = "undefined" THEN d ELSE x

FilterKeys == {"status", "category", "billingCycle"}

\* the where object built from the raw filters
BuildWhere(q) ==
    LET keys == {k \in FilterKeys : Truthy(q[k])}
                  \cup (IF Truthy(q.search) THEN {"OR"} ELSE {})
    IN [k \in keys |->
          IF k = "OR"
          THEN [contains |-> q.search, mode |-> "insensitive",
                fields |-> {"serviceName", "planType", "category"}]
          ELSE q[k]]

parseQueryParams(q) ==
    LET page == WithDefault(q.page, Num(DefaultPage * 100))
        limit == WithDefault(q.limit, Num(DefaultLimit * 100))
        sortBy == WithDefault(q.sortBy, Str(validSortFields[3]))
        sortOrder == WithDefault(q.sortOrder, Str(validSortOrder[1]))
        parsedPage == Max(1, OrDefault(parseInt(page), DefaultPage))
        parsedLimit == Min(MaxLimit, Max(1, OrDefault(parseInt(limit), DefaultLimit)))
        finalSortBy == IF Includes(validSortFields, sortBy) THEN sortBy.v ELSE validSortFields[3]
        finalSortOrder == IF Includes(validSortOrder, sortOrder) THEN sortOrder.v ELSE validSortOrder[1]
    IN [page |-> parsedPage,
        limit |-> parsedLimit,
        skip |-> (parsedPage - 1) * parsedLimit,
        where |-> BuildWhere(q),
        orderBy |-> (finalSortBy :> finalSortOrder)]

EmptyQuery ==
    [page |-> Undefined, limit |-> Undefined, status |-> Undefined,
     category |-> Undefined, billingCycle |-> Undefined, sortBy |-> Undefined,
     sortOrder |-> Undefined, search |-> Undefined]

-----------------------------------------------------------------------------
(* validateSubscriptionInput *)

MaxServiceNameLen == 100
MaxPlanTypeLen == 50
MaxCategoryLen == 50
\* 999999.99 in hundredths
MaxCost == 99999999

validCycles ==
    << <<"d","a","i","l","y">>, <<"w","e","e","k","l","y">>,
       <<"m","o","n","t","h","l","y">>, <<"q","u","a","r","t","e","r","l","y">>,
       <<"y","e","a","r","l","y">> >>

validStatuses ==
    << <<"a","c","t","i","v","e">>, <<"i","n","a","c","t","i","v","e">>,
       <<"c","a","n","c","e","l","l","e","d">>, <<"e","x","p","i","r","e","d">> >>

validMethods ==
    << <<"c","r","e","d","i","t","_","c","a","r","d">>,
       <<"d","e","b","i","t","_","c","a","r","d">>,
       <<"p","a","y","p","a","l">>,
       <<"b","a","n","k","_","t","r","a","n","s","f","e","r">>,
       <<"a","p","p","l","e","_","p","a","y">>,
       <<"g","o","o","g","l","e","_","p","a","y">>,
       <<"o","t","h","e","r">> >>

\* data[field]: undefined when the body has no such key
Get(data, f) == IF f \in DOMAIN data THEN data[f] ELSE Undefined

\* the body with key f set to x
Put(data, f, x) == [k \in DOMAIN data \cup {f} |-> IF k = f THEN x ELSE data[k]]

\* parseFloat(x): the argument as a string, then leading white space, a sign,
\* digits, and a fraction of which the model keeps two digits; NaN when no
\* numeral starts the string. The result is in hundredths.
parseFloat(x) ==
    IF x.t = "number" THEN [nan |-> FALSE, h |-> x.v]
    ELSE IF x.t # "string" THEN [nan |-> TRUE, h |-> 0]
    ELSE LET t == TrimLeft(x.v)
             signed == t # <<>> /\ t[1] \in {"-", "+"}
             body == IF signed THEN Tail(t) ELSE t
             k == DigitRun(body)
             rest == SubSeq(body, k + 1, Len(body))
             hasDot == rest # <<>> /\ rest[1] = "."
             frac == IF hasDot THEN SubSeq(rest, 2, 1 + DigitRun(Tail(rest))) ELSE <<>>
             f1 == IF Len(frac) >= 1 THEN DigitVal(frac[1]) ELSE 0
             f2 == IF Len(frac) >= 2 THEN DigitVal(frac[2]) ELSE 0
             mag == 100 * DigitsValue(SubSeq(body, 1, k)) + 10 * f1 + f2
         IN IF k = 0 /\ frac = <<>> THEN [nan |-> TRUE, h |-> 0]
            ELSE [nan |-> FALSE, h |-> IF signed /\ t[1] = "-" THEN -mag ELSE mag]

\* days from 1970-01-01 to the civil date y-m-d (a day past the month's end
\* rolls over into the next month)
DaysFromCivil(y, m, d) ==
    LET yy == IF m <= 2 THEN y - 1 ELSE y
        era == yy \div 400
        yoe == yy - era * 400
        mp == IF m > 2 THEN m - 3 ELSE m + 9
        doy == (153 * mp + 2) \div 5 + d - 1
        doe == yoe * 365 + yoe \div 4 - yoe \div 100 + doy
    IN era * 146097 + doe - 719468

\* new Date(x), at the resolution of a day: a YYYY-MM-DD string with month
\* 1..12 and day 1..31 is a date, any other string of the model is Invalid
\* Date; null is the epoch, a number or boolean a time stamp
NewDate(x) ==
    CASE x.t = "null" -> [t |-> "date", valid |-> TRUE, day |-> 0]
      [] x.t = "boolean" -> [t |-> "date", valid |-> TRUE, day |-> 0]
      [] x.t = "number" -> [t |-> "date", valid |-> TRUE, day |-> (x.v \div 100) \div 86400000]
      [] x.t = "string" ->
            LET s == x.v
                shaped == /\ Len(s) = 10 /\ s[5] = "-" /\ s[8] = "-"
                          /\ \A i \in {1, 2, 3, 4, 6, 7, 9, 10} : IsDigit(s[i])
                y == DigitsValue(SubSeq(s, 1, 4))
                m == DigitsValue(SubSeq(s, 6, 7))
                d == DigitsValue(SubSeq(s, 9, 10))
            IN IF shaped /\ m \in 1..12 /\ d \in 1..31
               THEN [t |-> "date", valid |-> TRUE, day |-> DaysFromCivil(y, m, d)]
               ELSE [t |-> "date", valid |-> FALSE, day |-> 0]
      [] OTHER -> [t |-> "date", valid |-> FALSE, day |-> 0]

Err(f, m) == [field |-> f, msg |-> m]

requiredFields(isUpdate) ==
    IF isUpdate THEN <<>>
    ELSE <<"serviceName", "planType", "cost", "billingCycle", "nextBillingDate">>

\* the errors of the fields of rf that are missing or blank, in order
MissingErrors(data, rf) ==
    LET missing(f) == \/ ~Truthy(Get(data, f))
                      \/ (IsStr(Get(data, f)) /\ Trim(Get(data, f).v) = <<>>)
    IN SelectSeq([i \in 1..Len(rf) |-> Err(rf[i], "is required")],
                 LAMBDA e : missing(e.field))

\* mutant: the loop over the required fields ends at the first missing one
RequiredErrors_firstOnly(data, isUpdate) ==
    LET e == MissingErrors(data, requiredFields(isUpdate))
    IN IF e = <<>> THEN e ELSE <<e[1]>>

\* the forEach over requiredFields
RequiredErrors(data, isUpdate) == MissingErrors(data, requiredFields(isUpdate))

\* the three trimmed-string fields: serviceName, planType, category
TextErrors(data, f, maxLen) ==
    LET x == Get(data, f)
    IN IF x.t = "undefined" THEN <<>>
       ELSE IF ~IsStr(x) THEN <<Err(f, "must be a string")>>
       ELSE (IF Len(Trim(x.v)) < 1 THEN <<Err(f, "cannot be empty")>> ELSE <<>>)
            \o (IF Len(Trim(x.v)) > maxLen THEN <<Err(f, "too long")>> ELSE <<>>)

CostErrors(data) ==
    LET x == Get(data, "cost")
        cost == parseFloat(x)
    IN IF x.t = "undefined" THEN <<>>
       ELSE IF cost.nan \/ cost.h < 0 THEN <<Err("cost", "must be a positive number")>>
       ELSE IF cost.h > MaxCost THEN <<Err("cost", "must not exceed")>>
       ELSE <<>>

\* mutant: the closed value sets are not enforced
EnumErrors_unchecked(data, f, allowed) == <<>>

\* billingCycle, status, paymentMethod
EnumErrors(data, f, allowed) ==
    LET x == Get(data, f)
    IN IF x.t = "undefined" THEN <<>>
       ELSE IF ~Includes(allowed, x) THEN <<Err(f, "must be one of")>>
       ELSE <<>>

DateErrors(data) ==
    LET x == Get(data, "nextBillingDate")
    IN IF x.t = "undefined" THEN <<>>
       ELSE IF ~NewDate(x).valid THEN <<Err("nextBillingDate", "must be a valid date")>>
       ELSE <<>>

BoolErrors(data) ==
    LET x == Get(data, "autoRenewal")
    IN IF x.t = "undefined" THEN <<>>
       ELSE IF x.t # "boolean" THEN <<Err("autoRenewal", "must be a boolean value")>>
       ELSE <<>>

\* sanitizedData: a copy of the whole body, with the valid text fields
\* trimmed, a valid cost as the parsed number and a valid date as a Date
Sanitize(data) ==
    [k \in DOMAIN data |->
        LET x == data[k]
        IN CASE k \in {"serviceName", "planType", "category"} /\ IsStr(x) -> Str(Trim(x.v))
             [] k = "cost" /\ ~parseFloat(x).nan /\ parseFloat(x).h >= 0
                  /\ parseFloat(x).h <= MaxCost -> Num(parseFloat(x).h)
             [] k = "nextBillingDate" /\ NewDate(x).valid -> NewDate(x)
             [] OTHER -> x]

validateSubscriptionInput(data, isUpdate) ==
    LET errors == RequiredErrors(data, isUpdate)
                    \o TextErrors(data, "serviceName", MaxServiceNameLen)
                    \o TextErrors(data, "planType", MaxPlanTypeLen)
                    \o CostErrors(data)
                    \o EnumErrors(data, "billingCycle", validCycles)
                    \o DateErrors(data)
                    \o EnumErrors(data, "status", validStatuses)
                    \o TextErrors(data, "category", MaxCategoryLen)
                    \o EnumErrors(data, "paymentMethod", validMethods)
                    \o BoolErrors(data)
    IN [isValid |-> Len(errors) = 0, errors |-> errors, sanitizedData |-> Sanitize(data)]

-----------------------------------------------------------------------------
(* The subscription table and its queries *)

\* the users table: user ids are strings
UserA == <<"A">>
UserB == <<"B">>
Users == {UserA, UserB}

UpperCase ==
    <<"A","B","C","D","E","F","G","H","I","J","K","L","M",
      "N","O","P","Q","R","S","T","U","V","W","X","Y","Z">>
LowerCase ==
    <<"a","b","c","d","e","f","g","h","i","j","k","l","m",
      "n","o","p","q","r","s","t","u","v","w","x","y","z">>

LowerChar(c) ==
    IF \E i \in 1..26 : UpperCase[i] = c
    THEN LowerCase[CHOOSE i \in 1..26 : UpperCase[i] = c]
    ELSE c

Lower(s) == [i \in 1..Len(s) |-> LowerChar(s[i])]

\* s contains t as a substring
Contains(s, t) ==
    \E i \in 1..(Len(s) - Len(t) + 1) : SubSeq(s, i, i + Len(t) - 1) = t

\* { contains: t, mode: 'insensitive' }
ContainsInsensitive(s, t) == Contains(Lower(s), Lower(t))

\* mutant: the search OR-group is an alternative to the other filters
Matches_orWidens(rec, where) ==
    \/ \A k \in DOMAIN where \ {"OR"} :
          IF k = "userId" THEN rec.userId = where[k] ELSE rec[k] = where[k].v
    \/ /\ "OR" \in DOMAIN where
       /\ \E f \in where["OR"].fields : ContainsInsensitive(rec[f], where["OR"].contains.v)

\* a row satisfies a where object: every key holds, the OR key when one of
\* its alternatives does
Matches(rec, where) ==
    \A k \in DOMAIN where :
        CASE k = "OR" ->
               \E f \in where[k].fields : ContainsInsensitive(rec[f], where[k].contains.v)
          [] k = "userId" -> rec.userId = where[k]
          [] OTHER -> rec[k] = where[k].v

\* ids of the rows of table st that satisfy where (findMany, count)
FindMany(st, where) == {id \in DOMAIN st : st[id] # <<>> /\ Matches(st[id][1], where)}

\* mutant: the handler passes the planner's where on as it is
ListWhere_noOwner(q, userId) == parseQueryParams(q).where

\* GET /: the planner's where with the requester added by the handler
ListWhere(q, userId) == Put(parseQueryParams(q).where, "userId", userId)

CeilDiv(a, b) == (a + b - 1) \div b

\* the ids in ascending order
RECURSIVE Ascending(_)
Ascending(ids) ==
    IF ids = {} THEN <<>>
    ELSE LET least == CHOOSE i \in ids : \A j \in ids : i <= j
         IN <<least>> \o Ascending(ids \ {least})

\* mutant: take is ignored
Page_unbounded(ids, skip, take) ==
    LET rows == Ascending(ids)
    IN SubSeq(rows, skip + 1, Len(rows))

\* findMany({ skip, take }) over the matching ids, here in the order of
\* their creation: take rows after the first skip
Page(ids, skip, take) ==
    LET rows == Ascending(ids)
    IN SubSeq(rows, skip + 1, Min(Len(rows), skip + take))

\* GET /: both queries on table st and the response
ListSubscriptions(st, q, userId) ==
    LET p == parseQueryParams(q)
        where == ListWhere(q, userId)
        totalCount == Cardinality(FindMany(st, where))
        totalPages == CeilDiv(totalCount, p.limit)
    IN [planned |-> p.where,
        where |-> where,
        matched |-> FindMany(st, where),
        data |-> Page(FindMany(st, where), p.skip, p.limit),
        pagination |-> [currentPage |-> p.page, totalPages |-> totalPages,
                        totalItems |-> totalCount, itemsPerPage |-> p.limit,
                        hasNextPage |-> p.page < totalPages,
                        hasPrevPage |-> p.page > 1]]

-----------------------------------------------------------------------------
(* Raw inputs of parseQueryParams *)

\* all strings over alphabet of length at most n
StringsUpTo(alphabet, n) == UNION {[1..k -> alphabet] : k \in 0..n}

\* a raw query-string value: missing, or any short string of these characters
RawPaging ==
    {Undefined} \cup {Str(s) : s \in StringsUpTo({"0", "1", "5", "-", "a"}, MaxRawLen)}

RawSortBy ==
    {Undefined}
      \cup {Str(validSortFields[i]) : i \in 1..Len(validSortFields)}
      \cup {Str(<<>>), Str(<<"C","o","s","t">>), Str(<<"c","o","s","t"," ">>),
            Str(<<"i","d">>), Str(<<"u","s","e","r","I","d">>),
            Str(<<"s","t","a","t","u","s">>)}

RawSortOrder ==
    {Undefined}
      \cup {Str(validSortOrder[i]) : i \in 1..Len(validSortOrder)}
      \cup {Str(<<>>), Str(<<"A","S","C">>), Str(<<"D","E","S","C">>),
            Str(<<"d","e","s","c"," ">>), Str(<<"u","p">>)}

-----------------------------------------------------------------------------
(* Values of the variables a specification does not use *)

SubIds == 1..MaxSubs
Slots == 1..MaxSlots

NoStore == [i \in SubIds |-> <<>>]
\* a slot that holds no request
\* the results of the five analytics queries before any of them resolved
NoReads == [total |-> 0, active |-> 0, all |-> <<>>, upcoming |-> <<>>, spent |-> Null]

NoReq ==
    [pc |-> "idle", hdr |-> [present |-> FALSE], kind |-> "", id |-> 0, body |-> <<>>,
     user |-> <<>>, status |-> 0, msg |-> "", pending |-> {},
     touched |-> FALSE, foreign |-> FALSE, owned |-> FALSE, changed |-> {},
     got |-> NoReads, data |-> <<>>]

NoReqs == [r \in Slots |-> NoReq]

IdleQuery == query = EmptyQuery /\ params = <<>>
IdleValidator == vdata = <<>> /\ vmode = FALSE /\ vresult = <<>>
IdleServer == store = NoStore /\ nextId = 1 /\ reqs = NoReqs /\ issued = 0
IdleList == listUser = <<>> /\ listed = <<>>
IdleClock == now = 0
IdleBilling == billing = <<>> /\ advanced = <<>>
IdleRegister == users = {} /\ regs = <<>>
IdleTransactions == transactions = {}

-----------------------------------------------------------------------------
(* SpecQuery: parseQueryParams applied to a raw query *)

\* the raw query varies in page and limit, or in sortBy and sortOrder
QueryInit ==
    /\ \/ \E p \in RawPaging, l \in RawPaging :
             query = [EmptyQuery EXCEPT !.page = p, !.limit = l]
       \/ \E b \in RawSortBy, o \in RawSortOrder :
             query = [EmptyQuery EXCEPT !.sortBy = b, !.sortOrder = o]
    /\ params = <<>>
    /\ IdleValidator /\ IdleServer /\ IdleList /\ IdleClock /\ IdleBilling /\ IdleTransactions /\ IdleRegister

PlanQuery ==
    /\ params = <<>>
    /\ params' = <<parseQueryParams(query)>>
    /\ UNCHANGED <<query, vdata, vmode, vresult, store, nextId, reqs, issued,
                   listUser, listed, now, billing, advanced, users, regs, transactions>>

QueryNext == PlanQuery

SpecQuery == QueryInit /\ [][QueryNext]_vars

-----------------------------------------------------------------------------
(* Claims about parseQueryParams *)

\* the integer a raw page / limit value parses to, if any
ParsedInt(raw) == IF raw.t = "undefined" THEN [nan |-> TRUE, n |-> 0] ELSE parseInt(raw)

\* C6 (as claimed): the descriptor has page >= 1, 1 <= limit <= 100 and
\* skip = (page-1)*limit; a raw value that parses to an integer n gives
\* page = max(1, n) resp. limit = min(100, max(1, n)); only a missing or
\* unparsable value gives the default (page 1, limit 10).
C6_PagingBounds ==
    params # <<>> =>
        LET d == params[1]
            p == ParsedInt(query.page)
            l == ParsedInt(query.limit)
        IN /\ d.page >= 1
           /\ d.limit >= 1 /\ d.limit <= 100
           /\ d.skip = (d.page - 1) * d.limit
           /\ d.page = (IF p.nan THEN 1 ELSE Max(1, p.n))
           /\ d.limit = (IF l.nan THEN 10 ELSE Min(100, Max(1, l.n)))

\* C7: orderBy has exactly one key, a whitelisted field, with value asc or
\* desc; a whitelisted raw value is kept, any other (or a missing one)
\* becomes nextBillingDate resp. asc.
C7_SortWhitelist ==
    params # <<>> =>
        LET ob == params[1].orderBy
            key == CHOOSE k \in DOMAIN ob : TRUE
            fieldOk(x) == IsStr(x) /\ x.v \in {validSortFields[i] : i \in 1..5}
            orderOk(x) == IsStr(x) /\ x.v \in {<<"a","s","c">>, <<"d","e","s","c">>}
        IN /\ Cardinality(DOMAIN ob) = 1
           /\ key \in {validSortFields[i] : i \in 1..5}
           /\ ob[key] \in {<<"a","s","c">>, <<"d","e","s","c">>}
           /\ key = (IF fieldOk(query.sortBy) THEN query.sortBy.v
                     ELSE <<"n","e","x","t","B","i","l","l","i","n","g","D","a","t","e">>)
           /\ ob[key] = (IF orderOk(query.sortOrder) THEN query.sortOrder.v
                         ELSE <<"a","s","c">>)

\* C7 witness: a non-whitelisted sortBy and sortOrder were planned and fell
\* back to nextBillingDate asc
C7_Witness ==
    /\ params # <<>>
    /\ query.sortBy = Str(<<"c","o","s","t"," ">>)
    /\ query.sortOrder = Str(<<"D","E","S","C">>)
    /\ params[1].orderBy =
         (<<"n","e","x","t","B","i","l","l","i","n","g","D","a","t","e">> :> <<"a","s","c">>)

-----------------------------------------------------------------------------
(* SpecValidate: validateSubscriptionInput applied to a request body *)

Repeat(c, n) == [i \in 1..n |-> c]

\* raw values of each body field; undefined stands for a body without the key
RawServiceName ==
    {Undefined, Str(<<>>), Str(<<" ","a","b"," ">>), Str(Repeat("x", MaxServiceNameLen + 1))}

RawPlanType == {Undefined, Str(<<"p","r","o">>), Null}

RawCost ==
    {Undefined, Null, Num(0), Num(-100), Num(1599), Num(MaxCost), Num(MaxCost + 1),
     Str(<<>>), Str(<<"0">>), Str(<<"-","1">>), Str(<<"1","5",".","9","9">>),
     Str(<<"a","b","c">>), Str(<<"1","2","a","b","c">>),
     Str(<<"9","9","9","9","9","9",".","9","9">>), Str(<<"1","0","0","0","0","0","0">>)}

RawBillingCycle == {Undefined, Str(validCycles[3]), Str(<<"M","o","n","t","h","l","y">>)}

RawNextBillingDate ==
    {Undefined, Null, Str(<<"2","0","2","5","-","0","1","-","3","1">>),
     Str(<<"s","o","o","n">>)}

RawStatus == {Undefined, Str(validStatuses[3]), Str(<<"p","a","u","s","e","d">>)}

RawCategory == {Undefined, Str(<<"f","u","n">>), Str(<<" ">>)}

RawPaymentMethod == {Undefined, Str(validMethods[3]), Str(<<"c","a","s","h">>)}

RawAutoRenewal == {Undefined, Bool(FALSE), Str(<<"t","r","u","e">>)}

\* the body holding the keys of r whose value is not undefined
BodyOf(r) == [k \in {f \in DOMAIN r : r[f].t # "undefined"} |-> r[k]]

\* the body is any combination of the raw field values
ValidateInit ==
    /\ \E r \in [serviceName : RawServiceName, planType : RawPlanType,
                  cost : RawCost, billingCycle : RawBillingCycle,
                  nextBillingDate : RawNextBillingDate, status : RawStatus,
                  category : RawCategory, paymentMethod : RawPaymentMethod,
                  autoRenewal : RawAutoRenewal] :
          vdata = BodyOf(r)
    /\ vmode \in BOOLEAN
    /\ vresult = <<>>
    /\ IdleQuery /\ IdleServer /\ IdleList /\ IdleClock /\ IdleBilling /\ IdleTransactions /\ IdleRegister

Validate ==
    /\ vresult = <<>>
    /\ vresult' = <<validateSubscriptionInput(vdata, vmode)>>
    /\ UNCHANGED <<query, params, vdata, vmode, store, nextId, reqs, issued,
                   listUser, listed, now, billing, advanced, users, regs, transactions>>

ValidateNext == Validate

SpecValidate == ValidateInit /\ [][ValidateNext]_vars

-----------------------------------------------------------------------------
(* Claims about validateSubscriptionInput *)

InputFields ==
    {"serviceName", "planType", "cost", "billingCycle", "nextBillingDate",
     "status", "category", "paymentMethod", "autoRenewal"}

\* the rule of field f, for a value x that is present
RuleHolds(f, x) ==
    CASE f = "serviceName" -> IsStr(x) /\ Len(Trim(x.v)) \in 1..100
      [] f = "planType" -> IsStr(x) /\ Len(Trim(x.v)) \in 1..50
      [] f = "category" -> IsStr(x) /\ Len(Trim(x.v)) \in 1..50
      [] f = "cost" -> ~parseFloat(x).nan /\ parseFloat(x).h >= 0
                         /\ parseFloat(x).h <= 99999999
      [] f = "billingCycle" -> IsStr(x) /\ x.v \in {validCycles[i] : i \in 1..5}
      [] f = "status" -> IsStr(x) /\ x.v \in {validStatuses[i] : i \in 1..4}
      [] f = "paymentMethod" -> IsStr(x) /\ x.v \in {validMethods[i] : i \in 1..7}
      [] f = "nextBillingDate" -> NewDate(x).valid
      [] f = "autoRenewal" -> x.t = "boolean"

\* field f of the body violates its rule: present and against the rule, or
\* required on create and missing or blank
Violates(f, data, isUpdate) ==
    \/ f \in DOMAIN data /\ ~RuleHolds(f, data[f])
    \/ /\ ~isUpdate
       /\ f \in {"serviceName", "planType", "cost", "billingCycle", "nextBillingDate"}
       /\ \/ f \notin DOMAIN data
          \/ data[f].t = "null"
          \/ (IsStr(data[f]) /\ Trim(data[f].v) = <<>>)

ErrorFields(res) == {res.errors[i].field : i \in 1..Len(res.errors)}

\* C9: in both modes every field that violates its rule has at least one
\* error message (no stop at the first violation), and isValid is true
\* exactly when errors is empty.
C9_AllErrorsReported ==
    vresult # <<>> =>
        /\ \A f \in InputFields : Violates(f, vdata, vmode) => f \in ErrorFields(vresult[1])
        /\ vresult[1].isValid <=> (vresult[1].errors = <<>>)

\* C9 witness: validate({serviceName: "", cost: -1}) returned at least two
\* distinct error messages, one for each of the two fields
C9_Witness ==
    /\ vresult # <<>>
    /\ vmode
    /\ vdata = ("serviceName" :> Str(<<>>)) @@ ("cost" :> Num(-100))
    /\ ErrorFields(vresult[1]) = {"serviceName", "cost"}
    /\ Cardinality({vresult[1].errors[i] : i \in 1..Len(vresult[1].errors)}) >= 2

\* C10 (as claimed): on create and on update a present cost is accepted
\* exactly when it parses to a number c with 0 <= c <= 999999.99, is
\* rejected with a cost error otherwise, and an accepted cost is in the
\* sanitized data as the parsed number.
C10_CostRule ==
    (vresult # <<>> /\ "cost" \in DOMAIN vdata) =>
        LET c == parseFloat(vdata["cost"])
            inRange == ~c.nan /\ c.h >= 0 /\ c.h <= 99999999
            accepted == "cost" \notin ErrorFields(vresult[1])
        IN /\ accepted <=> inRange
           /\ accepted => vresult[1].sanitizedData["cost"] = Num(c.h)

\* C11 (as claimed): on create a missing or blank required field makes the
\* input invalid with an error naming the field; on update an input with no
\* fields is valid, and an update holding one field only is valid exactly
\* when create mode has no error for that field with the same value.
C11_RequiredFieldPolicy ==
    vresult # <<>> =>
        /\ ~vmode =>
              \A i \in 1..Len(requiredFields(FALSE)) :
                  LET f == requiredFields(FALSE)[i]
                  IN (\/ f \notin DOMAIN vdata
                      \/ vdata[f].t = "null"
                      \/ (IsStr(vdata[f]) /\ Trim(vdata[f].v) = <<>>))
                     => (~vresult[1].isValid /\ f \in ErrorFields(vresult[1]))
        /\ (vmode /\ DOMAIN vdata = {}) => vresult[1].isValid
        /\ \A f \in InputFields :
              (vmode /\ DOMAIN vdata = {f}) =>
                  (vresult[1].isValid
                     <=> f \notin ErrorFields(validateSubscriptionInput(vdata, FALSE)))

-----------------------------------------------------------------------------
(* SpecList: GET /api/subscriptions on a stored set of subscriptions *)

\* serviceName, planType, category and billingCycle of the stored rows
RowTexts ==
    << [serviceName |-> <<"A","b">>, planType |-> <<"x">>, category |-> <<"c">>,
        billingCycle |-> validCycles[3]],
       [serviceName |-> <<"x">>, planType |-> <<"a","B">>, category |-> <<"c">>,
        billingCycle |-> validCycles[5]],
       [serviceName |-> <<"x">>, planType |-> <<"x">>, category |-> <<"a","b">>,
        billingCycle |-> validCycles[3]] >>

Row(owner, status, txt) ==
    [userId |-> owner, creator |-> owner, serviceName |-> txt.serviceName,
     planType |-> txt.planType, cost |-> 999, billingCycle |-> txt.billingCycle,
     nextBillingDate |-> 20119, status |-> status, category |-> txt.category,
     paymentMethod |-> validMethods[1], autoRenewal |-> TRUE]

\* rows a validated POST of either user can have stored
StoredRows ==
    {Row(u, c[1], c[2]) :
        u \in Users,
        c \in {<<validStatuses[1], RowTexts[1]>>, <<validStatuses[3], RowTexts[1]>>,
               <<validStatuses[1], RowTexts[2]>>, <<validStatuses[3], RowTexts[3]>>}}

\* the table holds any of the rows under each id, or none; the query gives
\* any of the filters a value, an empty value or none
ListInit ==
    /\ store \in [SubIds -> {<<>>} \cup {<<row>> : row \in StoredRows}]
    /\ nextId = MaxSubs + 1
    /\ reqs = NoReqs /\ issued = 0
    /\ listUser \in Users
    /\ \E st \in {Undefined, Str(<<>>), Str(validStatuses[1])},
          c \in {Undefined, Str(<<"a","b">>), Str(<<"A","B">>)},
          b \in {Undefined, Str(validCycles[5])},
          se \in {Undefined, Str(<<>>), Str(<<"B">>), Str(<<"z">>)} :
          query = [EmptyQuery EXCEPT !.status = st, !.category = c,
                                     !.billingCycle = b, !.search = se]
    /\ params = <<>>
    /\ listed = <<>>
    /\ IdleValidator /\ IdleClock /\ IdleBilling /\ IdleTransactions /\ IdleRegister

List ==
    /\ listed = <<>>
    /\ listed' = <<ListSubscriptions(store, query, listUser)>>
    /\ UNCHANGED <<query, params, vdata, vmode, vresult, store, nextId, reqs, issued,
                   listUser, now, billing, advanced, users, regs, transactions>>

ListNext == List

SpecList == ListInit /\ [][ListNext]_vars

-----------------------------------------------------------------------------
(* Claims about the list query *)

\* C3 (as claimed): the descriptor returned by parseQueryParams already
\* contains userId = requester, ANDed with the other filters.
C3_PlannerScopes ==
    listed # <<>> =>
        /\ "userId" \in DOMAIN listed[1].planned
        /\ listed[1].planned["userId"] = listUser

\* C3 (amended): the descriptor returned by parseQueryParams carries no owner
\* predicate; the GET / handler adds userId = requester to its where, keeping
\* every other filter, and both storage queries use that where, so every
\* matched row belongs to the requester.
C3_HandlerScopes ==
    listed # <<>> =>
        /\ "userId" \notin DOMAIN listed[1].planned
        /\ DOMAIN listed[1].where = DOMAIN listed[1].planned \cup {"userId"}
        /\ listed[1].where["userId"] = listUser
        /\ \A k \in DOMAIN listed[1].planned : listed[1].where[k] = listed[1].planned[k]
        /\ \A id \in listed[1].matched : store[id][1].userId = listUser

\* C3 witness: a list with a filter ran on a table holding a row of each
\* user, and matched the requester's row
C3_Witness ==
    /\ listed # <<>>
    /\ DOMAIN listed[1].planned = {"status"}
    /\ \E i, j \in SubIds : /\ store[i] # <<>> /\ store[i][1].userId = listUser
                            /\ store[j] # <<>> /\ store[j][1].userId # listUser
                            /\ store[j][1].status = store[i][1].status
                            /\ i \in listed[1].matched

\* a filter is present when the query gives it a non-empty value (the
\* handler's `if (status)`)
Present(x) == IsStr(x) /\ x.v # <<>>

\* C8: the rows matched before paging are exactly the requester's rows that
\* equal every present filter among status, category, billingCycle and, when
\* search is present, contain it case-insensitively in serviceName, planType
\* or category; an absent filter restricts nothing.
C8_FilterSemantics ==
    listed # <<>> =>
        listed[1].matched =
            {id \in SubIds :
                /\ store[id] # <<>>
                /\ LET rec == store[id][1]
                   IN /\ rec.userId = listUser
                      /\ Present(query.status) => rec.status = query.status.v
                      /\ Present(query.category) => rec.category = query.category.v
                      /\ Present(query.billingCycle) => rec.billingCycle = query.billingCycle.v
                      /\ Present(query.search) =>
                            \E f \in {"serviceName", "planType", "category"} :
                                Contains(Lower(rec[f]), Lower(query.search.v))}

\* C8 witness: a search in another letter case, with a status filter, matched
\* one of the requester's rows and left out a row of the requester that has
\* the text but another status and a row of another user that has both
C8_Witness ==
    /\ listed # <<>>
    /\ query.search = Str(<<"B">>)
    /\ query.status = Str(validStatuses[1])
    /\ \E i, j \in SubIds :
          /\ i \in listed[1].matched
          /\ store[j] # <<>> /\ j \notin listed[1].matched
          /\ store[j][1].userId # listUser
          /\ store[j][1].status = validStatuses[1]
          /\ store[j][1].serviceName = <<"A","b">>

-----------------------------------------------------------------------------
(* The auth middleware *)

\* a user id no row of the users table has
Ghost == <<"G">>

Issuer == "subscription-manager"
Audience == "subscription-manager-users"

\* a token: whether its signature is good, whether it is past its exp,
\* whether it is before its nbf, its iss and aud, and of its payload the
\* userId (<<>> when absent) and the type ("" when absent)
Jwt(goodSig, expired, notBefore, iss, aud, userId, type) ==
    [sig |-> goodSig, expired |-> expired, notBefore |-> notBefore, iss |-> iss,
     aud |-> aud, userId |-> userId, type |-> type]

Token(goodSig, expired, userId) ==
    Jwt(goodSig, expired, FALSE, Issuer, Audience, userId, "")

NoHeader == [present |-> FALSE]
Header(scheme, token) == [present |-> TRUE, scheme |-> scheme, token |-> token]

\* Authorization headers of the model: none; another scheme; Bearer with an
\* empty token, a bad signature, an expired token, a payload without userId,
\* the id of no user, and the access tokens of the two users
AuthHeaders ==
    {NoHeader,
     Header("Basic ", <<Token(TRUE, FALSE, <<UserA>>)>>),
     Header("Bearer ", <<>>),
     Header("Bearer ", <<Token(FALSE, FALSE, <<UserA>>)>>),
     Header("Bearer ", <<Token(TRUE, TRUE, <<UserA>>)>>),
     Header("Bearer ", <<Token(TRUE, FALSE, <<>>)>>),
     Header("Bearer ", <<Token(TRUE, FALSE, <<Ghost>>)>>),
     Header("Bearer ", <<Token(TRUE, FALSE, <<UserA>>)>>),
     Header("Bearer ", <<Token(TRUE, FALSE, <<UserB>>)>>)}

\* mutant: the expiry of the token is not checked
jwtVerify_ignoreExpiry(token) ==
    IF ~token.sig THEN [ok |-> FALSE, error |-> "JsonWebTokenError"]
    ELSE IF token.notBefore THEN [ok |-> FALSE, error |-> "NotBeforeError"]
    ELSE [ok |-> TRUE, error |-> ""]

\* jwt.verify(token, secret): the signature, then nbf, then exp
jwtVerify(token) ==
    IF ~token.sig THEN [ok |-> FALSE, error |-> "JsonWebTokenError"]
    ELSE IF token.notBefore THEN [ok |-> FALSE, error |-> "NotBeforeError"]
    ELSE IF token.expired THEN [ok |-> FALSE, error |-> "TokenExpiredError"]
    ELSE [ok |-> TRUE, error |-> ""]

Denied(msg) == [status |-> 401, message |-> msg, user |-> <<>>]

\* auth over the ids of the users table: 401 with a message, or status 0
\* (next()) with req.user
authAmong(hdr, ids) ==
    IF ~hdr.present THEN Denied("No authorization header provided")
    ELSE IF hdr.scheme # "Bearer " THEN Denied("Invalid authorization header format")
    ELSE IF hdr.token = <<>> THEN Denied("No token provided")
    ELSE IF ~jwtVerify(hdr.token[1]).ok
         THEN Denied(CASE jwtVerify(hdr.token[1]).error = "TokenExpiredError" -> "Token expired"
                       [] jwtVerify(hdr.token[1]).error = "NotBeforeError" -> "Token not active yet"
                       [] OTHER -> "Invalid token")
    ELSE IF hdr.token[1].userId = <<>> THEN Denied("Invalid token payload")
    ELSE IF hdr.token[1].userId[1] \notin ids THEN Denied("User not found")
    ELSE [status |-> 0, message |-> "", user |-> hdr.token[1].userId]

auth(hdr) == authAmong(hdr, Users)

-----------------------------------------------------------------------------
(* Request bodies of the model *)

ValidCreate ==
    [serviceName |-> Str(<<" ","A","b">>), planType |-> Str(<<"x">>), cost |-> Num(999),
     billingCycle |-> Str(validCycles[3]),
     nextBillingDate |-> Str(<<"2","0","2","5","-","0","1","-","3","1">>)]

\* POST bodies: a valid one that also names an owner and an id, and one
\* with a negative cost
CreateBodies ==
    {Put(Put(ValidCreate, "userId", Str(UserB)), "id", Str(<<"2">>)),
     Put(ValidCreate, "cost", Num(-100))}

\* PUT bodies: a status change, a body naming an owner, a body naming an
\* id, a body with a key that is no column, and one with a negative cost
UpdateBodies ==
    {[status |-> Str(validStatuses[3])],
     [userId |-> Str(UserB)],
     [id |-> Str(<<"2">>)],
     [plan |-> Str(<<"x">>)],
     [cost |-> Num(-100)]}

\* the columns of a subscription row a request body can name
Columns == InputFields \cup {"userId", "id"}

-----------------------------------------------------------------------------
(* The subscription routes *)

NOT_FOUND == "The requested subscription does not exist or you do not have access to it"
GONE == "The requested subscription does not exist"

\* the value a column takes from a sanitized field
ColumnValue(x) == IF x.t = "date" THEN x.day ELSE x.v

\* sanitizedData.f || d
OrElse(data, f, d) == IF Truthy(Get(data, f)) THEN ColumnValue(data[f]) ELSE d

\* POST /: the row prisma.subscription.create is given
CreateData(userId, sd) ==
    [userId |-> userId, creator |-> userId,
     serviceName |-> ColumnValue(sd["serviceName"]),
     planType |-> ColumnValue(sd["planType"]),
     cost |-> ColumnValue(sd["cost"]),
     billingCycle |-> ColumnValue(sd["billingCycle"]),
     nextBillingDate |-> ColumnValue(sd["nextBillingDate"]),
     status |-> OrElse(sd, "status", validStatuses[1]),
     category |-> OrElse(sd, "category", validMethods[7]),
     paymentMethod |-> OrElse(sd, "paymentMethod", validMethods[1]),
     autoRenewal |-> IF Get(sd, "autoRenewal").t # "undefined" THEN sd["autoRenewal"].v ELSE TRUE]

\* findFirst({ id, userId })
FindFirst(st, id, userId) ==
    IF id \in DOMAIN st /\ st[id] # <<>> /\ st[id][1].userId = userId THEN st[id] ELSE <<>>

\* the id a body's id value names
IdOf(x) == DigitsValue(x.v)

\* PUT /:id: the data prisma.subscription.update is given
UpdateData(sd) == sd

\* update({ where: { id }, data }) on table st: the error it raises, if any
UpdateError(st, id, data) ==
    IF DOMAIN data \ Columns # {} THEN "PrismaClientValidationError"
    ELSE IF id \notin DOMAIN st \/ st[id] = <<>> THEN "P2025"
    ELSE IF "userId" \in DOMAIN data /\ data["userId"].v \notin Users THEN "P2003"
    ELSE IF /\ "id" \in DOMAIN data /\ IdOf(data["id"]) # id
            /\ (IdOf(data["id"]) \notin DOMAIN st \/ st[IdOf(data["id"])] # <<>>)
         THEN "P2002"
    ELSE ""

\* the row after the update: the columns data names are overwritten
UpdatedRow(row, data) ==
    [k \in DOMAIN row |->
        IF k \in DOMAIN data /\ k # "creator" THEN ColumnValue(data[k]) ELSE row[k]]

\* the table after a successful update (a data.id moves the row)
UpdatedTable(st, id, data) ==
    LET newId == IF "id" \in DOMAIN data THEN IdOf(data["id"]) ELSE id
    IN [i \in DOMAIN st |->
          IF i = newId THEN <<UpdatedRow(st[id][1], data)>>
          ELSE IF i = id THEN <<>>
          ELSE st[i]]

-----------------------------------------------------------------------------
(* Spec: requests to /api/subscriptions handled concurrently. A request is *)
(* received, passes the auth middleware, and its handler then runs one     *)
(* storage operation per step; between two steps of one request any step   *)
(* of another may run. Besides the response, a request records what claims *)
(* speak about: touched (a subscription query or mutation of it ran),      *)
(* foreign (one returned, changed or deleted a row then owned by another   *)
(* user), owned (its target row was the requester's when the request was   *)
(* received), changed (the columns its update changed).                    *)

\* the queries a handler issues together with Promise.all
Parallel(kind) ==
    CASE kind = "list" -> {"findMany", "count"}
      [] kind = "analytics" -> {"total", "active", "all", "upcoming", "spent"}
      [] OTHER -> {}

\* create requests received and not yet answered
PendingCreates ==
    Cardinality({r \in Slots : reqs[r].pc \in {"auth", "handler"} /\ reqs[r].kind = "create"})

\* ids a client can name: those handed out so far, and 0, which never is
KnownIds == 0..(nextId - 1)

Init ==
    /\ store = NoStore /\ nextId = 1 /\ reqs = NoReqs /\ issued = 0
    /\ IdleQuery /\ IdleValidator /\ IdleList /\ IdleClock /\ IdleBilling /\ IdleTransactions /\ IdleRegister

\* the requests a client can send with one of the headers: any route; a
\* route with an :id names a known id, POST and PUT carry a body
Requests(headers) ==
    {[NoReq EXCEPT !.pc = "auth", !.hdr = hdr, !.kind = kind] :
        hdr \in headers, kind \in {"list", "analytics"}}
    \cup {[NoReq EXCEPT !.pc = "auth", !.hdr = hdr, !.kind = "create", !.body = body] :
        hdr \in headers, body \in CreateBodies}
    \cup {[NoReq EXCEPT !.pc = "auth", !.hdr = hdr, !.kind = kind, !.id = id] :
        hdr \in headers, kind \in {"get", "delete"}, id \in KnownIds}
    \cup {[NoReq EXCEPT !.pc = "auth", !.hdr = hdr, !.kind = "update", !.id = id, !.body = body] :
        hdr \in headers, id \in KnownIds, body \in UpdateBodies}

\* the requester a header's token names, <<>> when it names none
Claimed(hdr) == IF hdr.present /\ hdr.token # <<>> THEN hdr.token[1].userId ELSE <<>>

\* one of the requests arrives in a free slot, the limit-th at most
Arrive(r, limit, requests) ==
    /\ reqs[r].pc \in {"idle", "done"}
    /\ issued < limit
    /\ \E req \in requests :
          /\ req.kind = "create" => nextId + PendingCreates <= MaxSubs
          /\ reqs' = [reqs EXCEPT ![r] =
                 [req EXCEPT !.owned = /\ Claimed(req.hdr) # <<>>
                                       /\ FindFirst(store, req.id, Claimed(req.hdr)[1]) # <<>>]]
    /\ issued' = issued + 1
    /\ UNCHANGED <<store, nextId, query, params, vdata, vmode, vresult, listUser, listed, now, billing, advanced, users, regs, transactions>>

\* the headers of the concurrent clients: an expired token and the access
\* tokens of the two users
ClientHeaders ==
    {Header("Bearer ", <<Token(TRUE, TRUE, <<UserA>>)>>),
     Header("Bearer ", <<Token(TRUE, FALSE, <<UserA>>)>>),
     Header("Bearer ", <<Token(TRUE, FALSE, <<UserB>>)>>)}

Receive(r) == Arrive(r, MaxIssued, Requests(ClientHeaders))

\* the response is sent; of the request, what claims speak about is kept
Respond(req, status, msg) ==
    [req EXCEPT !.pc = "done", !.status = status, !.msg = msg, !.pending = {},
                !.id = 0]

\* router.use(auth)
Auth(r) ==
    /\ reqs[r].pc = "auth"
    /\ LET a == auth(reqs[r].hdr)
       IN reqs' = [reqs EXCEPT ![r] =
              IF a.status # 0 THEN Respond(@, a.status, a.message)
              ELSE [@ EXCEPT !.pc = "handler", !.user = a.user, !.pending = Parallel(reqs[r].kind)]]
    /\ UNCHANGED <<store, nextId, issued, query, params, vdata, vmode, vresult, listUser, listed, now, billing, advanced, users, regs, transactions>>

\* the where of each query of GET / and GET /analytics
QueryWhere(req, qn) ==
    CASE qn \in {"findMany", "count"} -> ListWhere(EmptyQuery, req.user[1])
      [] qn \in {"total", "all", "spent"} -> ("userId" :> req.user[1])
      [] qn \in {"active", "upcoming"} ->
            ("userId" :> req.user[1]) @@ ("status" :> Str(validStatuses[1]))

\* GET / and GET /analytics: one of the parallel queries runs; the response
\* is sent when the last one has
RunQuery(r) ==
    /\ reqs[r].pc = "handler"
    /\ reqs[r].kind \in {"list", "analytics"}
    /\ \E qn \in reqs[r].pending :
          LET rows == FindMany(store, QueryWhere(reqs[r], qn))
              after == [reqs[r] EXCEPT
                          !.pending = @ \ {qn},
                          !.touched = TRUE,
                          !.foreign = @ \/ \E id \in rows : store[id][1].userId # reqs[r].user[1]]
          IN reqs' = [reqs EXCEPT ![r] =
                 IF after.pending = {} THEN Respond(after, 200, "retrieved") ELSE after]
    /\ UNCHANGED <<store, nextId, issued, query, params, vdata, vmode, vresult, listUser, listed, now, billing, advanced, users, regs, transactions>>

\* POST /
Create(r) ==
    /\ reqs[r].pc = "handler"
    /\ reqs[r].kind = "create"
    /\ LET validation == validateSubscriptionInput(reqs[r].body, FALSE)
       IN IF ~validation.isValid
          THEN /\ reqs' = [reqs EXCEPT ![r] = Respond(@, 400, "Validation failed")]
               /\ UNCHANGED <<store, nextId>>
          ELSE /\ store' = [store EXCEPT ![nextId] =
                      <<CreateData(reqs[r].user[1], validation.sanitizedData)
                          @@ [origId |-> nextId]>>]
               /\ nextId' = nextId + 1
               /\ reqs' = [reqs EXCEPT ![r] =
                      Respond([@ EXCEPT !.touched = TRUE], 201, "created")]
    /\ UNCHANGED <<issued, query, params, vdata, vmode, vresult, listUser, listed, now, billing, advanced, users, regs, transactions>>

\* GET /:id
GetOne(r) ==
    /\ reqs[r].pc = "handler"
    /\ reqs[r].kind = "get"
    /\ LET subscription == FindFirst(store, reqs[r].id, reqs[r].user[1])
       IN reqs' = [reqs EXCEPT ![r] =
              IF subscription = <<>> THEN Respond([@ EXCEPT !.touched = TRUE], 404, NOT_FOUND)
              ELSE Respond([@ EXCEPT !.touched = TRUE], 200, "retrieved")]
    /\ UNCHANGED <<store, nextId, issued, query, params, vdata, vmode, vresult, listUser, listed, now, billing, advanced, users, regs, transactions>>

\* PUT /:id and DELETE /:id up to the ownership check: the validation (PUT)
\* and findFirst({ id, userId })
CheckOwner(r) ==
    /\ reqs[r].pc = "handler"
    /\ reqs[r].kind \in {"update", "delete"}
    /\ LET invalid == /\ reqs[r].kind = "update"
                      /\ ~validateSubscriptionInput(reqs[r].body, TRUE).isValid
           existing == FindFirst(store, reqs[r].id, reqs[r].user[1])
       IN reqs' = [reqs EXCEPT ![r] =
              IF invalid THEN Respond(@, 400, "Validation failed")
              ELSE IF existing = <<>> THEN Respond([@ EXCEPT !.touched = TRUE], 404, NOT_FOUND)
              ELSE [@ EXCEPT !.pc = "checked", !.touched = TRUE]]
    /\ UNCHANGED <<store, nextId, issued, query, params, vdata, vmode, vresult, listUser, listed, now, billing, advanced, users, regs, transactions>>

\* the row with this id is there and owned by someone else than user
OwnedByOther(st, id, user) == id \in DOMAIN st /\ st[id] # <<>> /\ st[id][1].userId # user

\* PUT /:id after the ownership check: update({ where: { id }, data })
Update(r) ==
    /\ reqs[r].pc = "checked"
    /\ reqs[r].kind = "update"
    /\ LET id == reqs[r].id
           data == UpdateData(validateSubscriptionInput(reqs[r].body, TRUE).sanitizedData)
           error == UpdateError(store, id, data)
       IN IF error = "P2025"
          THEN /\ reqs' = [reqs EXCEPT ![r] = Respond(@, 404, GONE)]
               /\ UNCHANGED store
          ELSE IF error # ""
          THEN /\ reqs' = [reqs EXCEPT ![r] = Respond(@, 500, "Internal server error")]
               /\ UNCHANGED store
          ELSE /\ store' = UpdatedTable(store, id, data)
               /\ reqs' = [reqs EXCEPT ![r] =
                      Respond([@ EXCEPT
                                 !.foreign = OwnedByOther(store, id, reqs[r].user[1]),
                                 !.changed =
                                    {k \in DOMAIN store[id][1] :
                                        UpdatedRow(store[id][1], data)[k] # store[id][1][k]}
                                    \cup (IF store'[id] = <<>> THEN {"id"} ELSE {})],
                              200, "updated")]
    /\ UNCHANGED <<nextId, issued, query, params, vdata, vmode, vresult, listUser, listed, now, billing, advanced, users, regs, transactions>>

\* mutant: deleting a subscription leaves its transactions
Cascade_none(txs, id) == txs

\* the transactions table after subscription id was deleted (onDelete: Cascade)
Cascade(txs, id) == {t \in txs : t.subscriptionId # id}

\* DELETE /:id after the ownership check: delete({ where: { id } })
Delete(r) ==
    /\ reqs[r].pc = "checked"
    /\ reqs[r].kind = "delete"
    /\ LET id == reqs[r].id
       IN IF store[id] = <<>>
          THEN /\ reqs' = [reqs EXCEPT ![r] = Respond(@, 404, GONE)]
               /\ UNCHANGED <<store, transactions>>
          ELSE /\ store' = [store EXCEPT ![id] = <<>>]
               /\ transactions' = Cascade(transactions, id)
               /\ reqs' = [reqs EXCEPT ![r] =
                      Respond([@ EXCEPT !.foreign = OwnedByOther(store, id, reqs[r].user[1])],
                              200, "deleted")]
    /\ UNCHANGED <<nextId, issued, query, params, vdata, vmode, vresult, listUser, listed, now, billing, advanced, users, regs>>

Next ==
    \E r \in Slots :
        \/ Receive(r)
        \/ Auth(r)
        \/ RunQuery(r)
        \/ Create(r)
        \/ GetOne(r)
        \/ CheckOwner(r)
        \/ Update(r)
        \/ Delete(r)

Spec == Init /\ [][Next]_vars

\* SpecSerial: the same server, one request at a time, under every header
ReceiveSerial(r) == Arrive(r, MaxSerialIssued, Requests(AuthHeaders))

SerialNext ==
    \/ ReceiveSerial(1)
    \/ Auth(1)
    \/ RunQuery(1)
    \/ Create(1)
    \/ GetOne(1)
    \/ CheckOwner(1)
    \/ Update(1)
    \/ Delete(1)

SpecSerial == Init /\ [][SerialNext]_vars

-----------------------------------------------------------------------------
(* SpecStore: one user's POST and PUT requests, one at a time, with bodies *)
(* that vary one field over its raw values                                  *)

RawOf(f) ==
    CASE f = "serviceName" -> RawServiceName
      [] f = "planType" -> RawPlanType
      [] f = "cost" -> RawCost
      [] f = "billingCycle" -> RawBillingCycle
      [] f = "nextBillingDate" -> RawNextBillingDate
      [] f = "status" -> RawStatus
      [] f = "category" -> RawCategory
      [] f = "paymentMethod" -> RawPaymentMethod
      [] f = "autoRenewal" -> RawAutoRenewal

\* POST bodies: the valid body with one field set to a raw value or left out
StoreCreateBodies ==
    UNION {{BodyOf(Put(ValidCreate, f, v)) : v \in RawOf(f)} : f \in InputFields}

\* PUT bodies: the empty body and the bodies holding one field
StoreUpdateBodies ==
    UNION {{BodyOf(Put(<<>>, f, v)) : v \in RawOf(f)} : f \in InputFields}

StoreRequests ==
    LET hdr == Header("Bearer ", <<Token(TRUE, FALSE, <<UserA>>)>>)
    IN {[NoReq EXCEPT !.pc = "auth", !.hdr = hdr, !.kind = "create", !.body = body] :
           body \in StoreCreateBodies}
       \cup {[NoReq EXCEPT !.pc = "auth", !.hdr = hdr, !.kind = "update", !.id = id,
                          !.body = body] :
                 id \in KnownIds, body \in StoreUpdateBodies}

ReceiveStore == Arrive(1, MaxStoreIssued, StoreRequests)

StoreNext ==
    \/ ReceiveStore
    \/ Auth(1)
    \/ Create(1)
    \/ CheckOwner(1)
    \/ Update(1)

SpecStore == Init /\ [][StoreNext]_vars

-----------------------------------------------------------------------------
(* SpecValidateBody: validateSubscriptionInput called with any value as the *)
(* body, an object or not                                                   *)

Obj(fields) == [t |-> "object", v |-> fields]

\* validateSubscriptionInput(body, isUpdate) for a body of any type: reading
\* a property of undefined or null raises a TypeError (at the first read of
\* data[field] or data.serviceName); a number or boolean has none of the
\* properties and spreads to {}
validateBody(body, isUpdate) ==
    IF body.t \in {"undefined", "null"}
    THEN [threw |-> TRUE, error |-> "TypeError", value |-> <<>>, input |-> body]
    ELSE [threw |-> FALSE, error |-> "",
          value |-> <<validateSubscriptionInput(IF body.t = "object" THEN body.v ELSE <<>>,
                                                isUpdate)>>,
          input |-> body]

\* the argument after the call: the function assigns to sanitizedData, a
\* copy of data, and never to data
DataAfter(body) == body

BodyValues ==
    {Undefined, Null, Num(500), Bool(TRUE)}
    \cup {Obj(b) : b \in StoreCreateBodies \cup StoreUpdateBodies}

ValidateBodyInit ==
    /\ vdata \in BodyValues
    /\ vmode \in BOOLEAN
    /\ vresult = <<>>
    /\ IdleQuery /\ IdleServer /\ IdleList /\ IdleClock /\ IdleBilling /\ IdleTransactions /\ IdleRegister

ValidateBody ==
    /\ vresult = <<>>
    /\ vresult' = <<validateBody(vdata, vmode)>>
    /\ vdata' = DataAfter(vdata)
    /\ UNCHANGED <<query, params, vmode, store, nextId, reqs, issued, listUser, listed, now, billing, advanced, users, regs, transactions>>

ValidateBodyNext == ValidateBody

SpecValidateBody == ValidateBodyInit /\ [][ValidateBodyNext]_vars

\* C13 (as claimed): for every value passed as the body (a missing, null or
\* non-object body included) and both modes the validator returns
\* {isValid, errors, sanitizedData} instead of throwing, and its argument is
\* left as it was.
C13_NeverRaisesPure ==
    vresult # <<>> =>
        /\ ~vresult[1].threw
        /\ DOMAIN vresult[1].value[1] = {"isValid", "errors", "sanitizedData"}
        /\ vdata = vresult[1].input

-----------------------------------------------------------------------------
(* Claims about the routes *)

Active(r) == reqs[r].pc # "idle"
Answered(r) == reqs[r].pc = "done"

\* C1 (as claimed): no request of a user returns, modifies or deletes a
\* subscription that, at the moment of the storage operation, is owned by
\* another user.
C1_TenantIsolation == \A r \in Slots : Active(r) => ~reqs[r].foreign

\* C2 (as claimed): every stored subscription's userId is the user whose POST
\* created it and its id is the one it was created with, whatever the POST
\* and PUT bodies contain; a PUT changes only the input fields its body has.
C2_OwnershipImmutable ==
    /\ \A id \in SubIds :
          store[id] # <<>> =>
              /\ store[id][1].userId = store[id][1].creator
              /\ store[id][1].origId = id
    /\ \A r \in Slots :
          (Answered(r) /\ reqs[r].kind = "update" /\ reqs[r].status = 200) =>
              reqs[r].changed \subseteq (InputFields \cap DOMAIN reqs[r].body)

\* C4 (as claimed): GET, PUT and DELETE of an id that, when the request is
\* made, is absent or owned by another user are answered alike: 404 with the
\* one not-found body, also while other users' requests on that id run.
\* (A PUT whose body fails validation is answered 400 in both cases.)
C4_NotFoundAlike ==
    \A r \in Slots :
        ( /\ Answered(r)
          /\ reqs[r].kind \in {"get", "update", "delete"}
          /\ reqs[r].user # <<>>
          /\ ~reqs[r].owned
          /\ reqs[r].status # 400 )
        => (reqs[r].status = 404 /\ reqs[r].msg = NOT_FOUND)

\* the stored record's fields are within the rules of the validator
StoredValid(row) ==
    /\ row.billingCycle \in {validCycles[i] : i \in 1..Len(validCycles)}
    /\ row.status \in {validStatuses[i] : i \in 1..Len(validStatuses)}
    /\ row.paymentMethod \in {validMethods[i] : i \in 1..Len(validMethods)}
    /\ row.cost \in Int /\ row.cost >= 0 /\ row.cost <= 99999999
    /\ row.nextBillingDate \in Int
    /\ row.autoRenewal \in BOOLEAN
    /\ row.serviceName = Trim(row.serviceName) /\ Len(row.serviceName) \in 1..100
    /\ row.planType = Trim(row.planType) /\ Len(row.planType) \in 1..50
    /\ row.category = Trim(row.category) /\ Len(row.category) \in 1..50

\* a field of the body is against its rule
BodyViolates(body) == \E f \in DOMAIN body \cap InputFields : ~RuleHolds(f, body[f])

\* C12: every stored subscription has its enumerated fields in their closed
\* sets, 0 <= cost <= 999999.99, a valid nextBillingDate, a boolean
\* autoRenewal and trimmed non-empty texts within their lengths; a POST or
\* PUT whose body has a field against its rule is answered 400 and runs no
\* storage operation.
C12_StoredRecordsValid ==
    /\ \A id \in SubIds : store[id] # <<>> => StoredValid(store[id][1])
    /\ \A r \in Slots :
          ( /\ Answered(r)
            /\ reqs[r].kind \in {"create", "update"}
            /\ reqs[r].user # <<>>
            /\ BodyViolates(reqs[r].body) )
          => (reqs[r].status = 400 /\ ~reqs[r].touched)

\* C12 witness: a PUT with cost "15.99" was answered 200 and the row holds
\* the number, and the other row was stored by a POST
C12_Witness ==
    /\ Answered(1)
    /\ reqs[1].kind = "update"
    /\ reqs[1].status = 200
    /\ reqs[1].body = ("cost" :> Str(<<"1","5",".","9","9">>))
    /\ \E id \in SubIds : store[id] # <<>> /\ store[id][1].cost = 1599
    /\ \A id \in SubIds : store[id] # <<>>

\* the header carries a Bearer token with a good signature, not expired,
\* whose userId is the id of a user
CredentialOk(hdr) ==
    /\ hdr.present
    /\ hdr.scheme = "Bearer "
    /\ hdr.token # <<>>
    /\ hdr.token[1].sig
    /\ ~hdr.token[1].expired
    /\ hdr.token[1].userId # <<>>
    /\ hdr.token[1].userId[1] \in Users

\* C5: on every route a subscription query or mutation runs only for a
\* request whose token auth verified and whose user it loaded into req.user;
\* a request without such a credential (no header, not Bearer, empty token,
\* bad signature, expired, no userId, unknown user) is answered 401 and runs
\* no storage operation on subscriptions.
C5_AuthFirst ==
    \A r \in Slots :
        Active(r) =>
            /\ (reqs[r].touched \/ reqs[r].pc \in {"handler", "checked"}) =>
                  /\ CredentialOk(reqs[r].hdr)
                  /\ reqs[r].user = reqs[r].hdr.token[1].userId
            /\ (Answered(r) /\ ~CredentialOk(reqs[r].hdr)) =>
                  (reqs[r].status = 401 /\ ~reqs[r].touched)
            /\ (Answered(r) /\ CredentialOk(reqs[r].hdr)) => reqs[r].status # 401

\* C5 witness: a DELETE with an expired token of a user who has a stored
\* subscription was answered 401, and the subscription is still there
C5_Witness ==
    \E r \in Slots :
        /\ Answered(r)
        /\ reqs[r].kind = "delete"
        /\ reqs[r].hdr = Header("Bearer ", <<Token(TRUE, TRUE, <<UserA>>)>>)
        /\ reqs[r].status = 401
        /\ \E id \in SubIds : store[id] # <<>> /\ store[id][1].userId = UserA

-----------------------------------------------------------------------------
(* GET /analytics: the aggregates. Amounts are exact: a cost is a number of *)
(* hundredths, an unrounded sum a number of 1/1200 of a hundredth, in which *)
(* every monthly equivalent of a cost is a whole number.                    *)

\* the response window of upcoming renewals, in days
ThirtyDays == 30

Other == <<"o","t","h","e","r">>

\* property names every object inherits from Object.prototype
InheritedKeys ==
    { <<"c","o","n","s","t","r","u","c","t","o","r">>,
      <<"t","o","S","t","r","i","n","g">>,
      <<"v","a","l","u","e","O","f">>,
      <<"_","_","p","r","o","t","o","_","_">> }

\* Math.round(x * 100) / 100 of a non-negative unrounded amount, in hundredths
Round2(units) == (units + 600) \div 1200

\* the switch of the monthlyTotal reduce: what a subscription adds
OverviewMonthly(sub) ==
    CASE sub.billingCycle = validCycles[1] -> sub.cost * 36000
      [] sub.billingCycle = validCycles[2] -> sub.cost * 5196
      [] sub.billingCycle = validCycles[3] -> sub.cost * 1200
      [] sub.billingCycle = validCycles[4] -> sub.cost * 400
      [] sub.billingCycle = validCycles[5] -> sub.cost * 100
      [] OTHER -> 0

\* the switch of the categoryBreakdown reduce: monthlyCost starts as the cost
\* and four of the cycles replace it
CategoryMonthly(sub) ==
    CASE sub.billingCycle = validCycles[1] -> sub.cost * 36000
      [] sub.billingCycle = validCycles[2] -> sub.cost * 5196
      [] sub.billingCycle = validCycles[4] -> sub.cost * 400
      [] sub.billingCycle = validCycles[5] -> sub.cost * 100
      [] OTHER -> sub.cost * 1200

\* subscriptions.filter(sub => sub.status === 'active')
ActiveOnly(subs) == SelectSeq(subs, LAMBDA sub : sub.status = validStatuses[1])

\* .reduce((total, sub) => total + ..., 0)
RECURSIVE SumMonthly(_)
SumMonthly(subs) ==
    IF subs = <<>> THEN 0 ELSE OverviewMonthly(subs[1]) + SumMonthly(Tail(subs))

\* mutant: the overview total is taken over every status
MonthlyTotal_anyStatus(subs) == SumMonthly(subs)

\* const monthlyTotal: the reduce over the active subscriptions
MonthlyTotal(subs) == SumMonthly(ActiveOnly(subs))

\* mutant: the yearly total is taken from the rounded monthly total
YearlyTotal_fromRounded(monthlyTotal) == Round2(monthlyTotal) * 1200 * 12

\* const yearlyTotal = monthlyTotal * 12
YearlyTotal(monthlyTotal) == monthlyTotal * 12

\* sub.category || 'other'
CategoryOf(sub) == IF sub.category = <<>> THEN Other ELSE sub.category

\* the categoryBreakdown reduce: categories is a plain object; a category
\* that names an inherited property finds that property instead of a
\* bucket, the counters are written to it and no own property is made.
\* The buckets are kept in the order their keys were created.
RECURSIVE GroupByCategory(_, _)
GroupByCategory(categories, subs) ==
    IF subs = <<>> THEN categories
    ELSE LET sub == subs[1]
             category == CategoryOf(sub)
             known == {i \in 1..Len(categories) : categories[i].category = category}
             next ==
                IF category \in InheritedKeys THEN categories
                ELSE IF known = {}
                THEN Append(categories, [category |-> category, count |-> 1,
                                         totalCost |-> CategoryMonthly(sub)])
                ELSE [i \in 1..Len(categories) |->
                        IF i \in known
                        THEN [categories[i] EXCEPT !.count = @ + 1,
                                                   !.totalCost = @ + CategoryMonthly(sub)]
                        ELSE categories[i]]
         IN GroupByCategory(next, Tail(subs))

\* a property name that is an array index: a canonical decimal numeral
IsIndexKey(key) ==
    /\ key # <<>>
    /\ \A i \in 1..Len(key) : IsDigit(key[i])
    /\ (Len(key) = 1 \/ key[1] # "0")

\* the index keys of the buckets in ascending numeric order
RECURSIVE AscendingIndexKeys(_)
AscendingIndexKeys(buckets) ==
    LET idx == {i \in 1..Len(buckets) : IsIndexKey(buckets[i].category)}
    IN IF idx = {} THEN <<>>
       ELSE LET least == CHOOSE i \in idx :
                            \A j \in idx : DigitsValue(buckets[i].category)
                                              <= DigitsValue(buckets[j].category)
            IN <<buckets[least]>>
               \o AscendingIndexKeys(SelectSeq(buckets, LAMBDA b : b # buckets[least]))

\* Object.entries(categoryBreakdown): the index keys in ascending order,
\* then the other keys in the order of their creation
ObjectEntries(buckets) ==
    AscendingIndexKeys(buckets)
    \o SelectSeq(buckets, LAMBDA b : ~IsIndexKey(b.category))

\* .map(([category, data]) => ({ category, count, monthlyTotal: rounded }))
EmitBuckets(entries) ==
    [i \in 1..Len(entries) |->
        [category |-> entries[i].category, count |-> entries[i].count,
         monthlyTotal |-> Round2(entries[i].totalCost)]]

\* one element put into a list sorted by descending monthlyTotal, after the
\* elements that compare equal to it
RECURSIVE InsertDesc(_, _)
InsertDesc(sorted, e) ==
    IF sorted = <<>> THEN <<e>>
    ELSE IF sorted[1].monthlyTotal >= e.monthlyTotal
         THEN <<sorted[1]>> \o InsertDesc(Tail(sorted), e)
         ELSE <<e>> \o sorted

\* .sort((a, b) => b.monthlyTotal - a.monthlyTotal): a stable sort
RECURSIVE SortDesc(_, _)
SortDesc(sorted, rest) ==
    IF rest = <<>> THEN sorted ELSE SortDesc(InsertDesc(sorted, rest[1]), Tail(rest))

CategoryBreakdown(subs) ==
    SortDesc(<<>>, EmitBuckets(ObjectEntries(GroupByCategory(<<>>, ActiveOnly(subs)))))

\* the orders in which a query can return the rows ids
Orderings(ids) ==
    {o \in [1..Cardinality(ids) -> ids] : \A i, j \in DOMAIN o : i # j => o[i] # o[j]}

\* findMany({ where: { userId } }) without orderBy: the rows in any order
AllOf(st, userId) == Orderings(FindMany(st, "userId" :> userId))

\* mutant: the window of upcoming renewals starts after now
UpcomingIds_afterNow(st, userId, clock) ==
    {id \in FindMany(st, ("userId" :> userId) @@ ("status" :> Str(validStatuses[1]))) :
        /\ st[id][1].nextBillingDate <= clock + ThirtyDays
        /\ st[id][1].nextBillingDate > clock}

\* where: { userId, status: 'active', nextBillingDate: { lte, gte } }
UpcomingIds(st, userId, clock) ==
    {id \in FindMany(st, ("userId" :> userId) @@ ("status" :> Str(validStatuses[1]))) :
        /\ st[id][1].nextBillingDate <= clock + ThirtyDays
        /\ st[id][1].nextBillingDate >= clock}

\* orderBy: { nextBillingDate: 'asc' }: rows of one date in any order
UpcomingRenewals(st, userId, clock) ==
    {o \in Orderings(UpcomingIds(st, userId, clock)) :
        \A i, j \in DOMAIN o :
            i < j => st[o[i]][1].nextBillingDate <= st[o[j]][1].nextBillingDate}

\* upcomingRenewals.reduce((total, renewal) => total + renewal.cost, 0)
RECURSIVE SumCost(_, _)
SumCost(st, ids) ==
    IF ids = <<>> THEN 0 ELSE st[ids[1]][1].cost * 1200 + SumCost(st, Tail(ids))

\* the handler after Promise.all: scan is the result of the findMany of all
\* the requester's subscriptions, renewals that of the upcoming renewals.
\* Besides the response the record keeps the unrounded locals.
Analytics(st, userId, scan, renewals) ==
    LET subscriptions == [i \in 1..Len(scan) |-> st[scan[i]][1]]
        totalSubscriptions == Cardinality(FindMany(st, "userId" :> userId))
        activeSubscriptions ==
            Cardinality(FindMany(st, ("userId" :> userId)
                                     @@ ("status" :> Str(validStatuses[1]))))
        monthlyTotal == MonthlyTotal(subscriptions)
        yearlyTotal == YearlyTotal(monthlyTotal)
        upcomingRenewalCosts == SumCost(st, renewals)
    IN [status |-> 200,
        scan |-> scan,
        monthlyTotal |-> monthlyTotal,
        yearlyTotal |-> yearlyTotal,
        categories |-> GroupByCategory(<<>>, ActiveOnly(subscriptions)),
        overview |-> [totalSubscriptions |-> totalSubscriptions,
                      activeSubscriptions |-> activeSubscriptions,
                      inactiveSubscriptions |-> totalSubscriptions - activeSubscriptions,
                      monthlyTotal |-> Round2(monthlyTotal),
                      yearlyTotal |-> Round2(yearlyTotal)],
        upcomingRenewals |-> [count |-> Len(renewals),
                              totalCost |-> Round2(upcomingRenewalCosts),
                              renewals |-> renewals],
        categoryBreakdown |-> CategoryBreakdown(subscriptions)]

-----------------------------------------------------------------------------
(* SpecAnalytics: GET /analytics on a stored set of subscriptions *)

\* the day of the request
Today == DaysFromCivil(2025, 6, 1)

ARow(owner, status, cycle, cost, category, day) ==
    [userId |-> owner, creator |-> owner, serviceName |-> <<"x">>, planType |-> <<"x">>,
     cost |-> cost, billingCycle |-> cycle, nextBillingDate |-> day, status |-> status,
     category |-> category, paymentMethod |-> validMethods[1], autoRenewal |-> TRUE]

\* stored rows: every cycle and one that is none of the five, active and
\* not, dates at and around both ends of the window, categories that are
\* words, a numeral, an inherited property name and empty
AnalyticsRows ==
    { ARow(UserA, validStatuses[1], validCycles[3], 1599, <<"a">>, Today),
      ARow(UserA, validStatuses[1], validCycles[5], 12000, <<"a">>, Today + 31),
      ARow(UserA, validStatuses[1], validCycles[5], 42, <<"b">>, Today + 30),
      ARow(UserA, validStatuses[1], validCycles[2], 50, <<"b">>, Today + 5),
      ARow(UserA, validStatuses[1], validCycles[4], 1000, <<"b">>, Today - 1),
      ARow(UserA, validStatuses[1], validCycles[1], 10, <<"c","o","n","s","t","r","u","c","t","o","r">>, Today + 5),
      ARow(UserA, validStatuses[1], <<"b","i","w","e","e","k","l","y">>, 1000, <<"c">>, Today + 5),
      ARow(UserA, validStatuses[3], validCycles[3], 1599, <<"a">>, Today + 5),
      ARow(UserA, validStatuses[1], validCycles[3], 1599, <<"7">>, Today + 5),
      ARow(UserA, validStatuses[1], validCycles[3], 1599, <<>>, Today + 5),
      ARow(UserA, validStatuses[4], validCycles[5], 12000, <<"b">>, Today),
      ARow(UserA, validStatuses[1], validCycles[5], 100, <<"d">>, Today + 40),
      ARow(UserB, validStatuses[1], validCycles[3], 1599, <<"a">>, Today) }

AnalyticsInit ==
    /\ store \in [SubIds -> {<<>>} \cup {<<row>> : row \in AnalyticsRows}]
    /\ nextId = MaxSubs + 1
    /\ reqs = NoReqs /\ issued = 0
    /\ listUser \in Users
    /\ now \in {Today, Today + 1}
    /\ listed = <<>>
    /\ IdleQuery /\ IdleValidator /\ IdleBilling /\ IdleTransactions /\ IdleRegister

Analyze ==
    /\ listed = <<>>
    /\ \E scan \in AllOf(store, listUser),
          renewals \in UpcomingRenewals(store, listUser, now) :
          listed' = <<Analytics(store, listUser, scan, renewals)>>
    /\ UNCHANGED <<query, params, vdata, vmode, vresult, store, nextId, reqs, issued,
                   listUser, now, billing, advanced, users, regs, transactions>>

AnalyticsNext == Analyze

SpecAnalytics == AnalyticsInit /\ [][AnalyticsNext]_vars

-----------------------------------------------------------------------------
(* Claims about the analytics *)

\* the requester's stored subscriptions, and the active ones
Mine == {id \in SubIds : store[id] # <<>> /\ store[id][1].userId = listUser}
MineActive == {id \in Mine : store[id][1].status = <<"a","c","t","i","v","e">>}

\* the monthly equivalent of a subscription as the mapping states it, in
\* 1/1200 of a hundredth; a cycle that is none of the five gives 0
Equivalent(sub) ==
    LET c == sub.billingCycle
    IN IF c = <<"d","a","i","l","y">> THEN sub.cost * 30 * 1200
       ELSE IF c = <<"w","e","e","k","l","y">> THEN (sub.cost * 433 * 1200) \div 100
       ELSE IF c = <<"m","o","n","t","h","l","y">> THEN sub.cost * 1200
       ELSE IF c = <<"q","u","a","r","t","e","r","l","y">> THEN (sub.cost * 1200) \div 3
       ELSE IF c = <<"y","e","a","r","l","y">> THEN (sub.cost * 1200) \div 12
       ELSE 0

RECURSIVE EquivalentSum(_)
EquivalentSum(ids) ==
    IF ids = {} THEN 0
    ELSE LET id == CHOOSE x \in ids : TRUE
         IN Equivalent(store[id][1]) + EquivalentSum(ids \ {id})

RECURSIVE CostSum(_)
CostSum(ids) ==
    IF ids = {} THEN 0
    ELSE LET id == CHOOSE x \in ids : TRUE
         IN store[id][1].cost + CostSum(ids \ {id})

\* the store holds the two subscriptions of the example: one active monthly
\* 15.99 and one active yearly 120.00 of the requester
ExampleStore ==
    /\ Cardinality(Mine) = 2 /\ MineActive = Mine
    /\ \E i, j \in Mine :
          /\ store[i][1].billingCycle = validCycles[3] /\ store[i][1].cost = 1599
          /\ store[j][1].billingCycle = validCycles[5] /\ store[j][1].cost = 12000

\* C14: the unrounded monthlyTotal is the sum over the active subscriptions
\* of cost*30 (daily), cost*4.33 (weekly), cost (monthly), cost/3
\* (quarterly), cost/12 (yearly), and yearlyTotal is that unrounded total
\* times 12; for active yearly subscriptions only, yearlyTotal is the sum of
\* their costs; the example shows monthlyTotal 25.99 and yearlyTotal 311.88.
C14_MonthlyYearlyTotals ==
    listed # <<>> =>
        /\ listed[1].monthlyTotal = EquivalentSum(MineActive)
        /\ listed[1].yearlyTotal = 12 * EquivalentSum(MineActive)
        /\ (\A id \in MineActive : store[id][1].billingCycle = validCycles[5])
              => listed[1].yearlyTotal = 1200 * CostSum(MineActive)
        /\ ExampleStore => /\ listed[1].overview.monthlyTotal = 2599
                           /\ listed[1].overview.yearlyTotal = 31188

\* C14 witness: analytics answered for the store of the example
C14_Witness ==
    /\ listed # <<>>
    /\ ExampleStore
    /\ listed[1].overview.monthlyTotal = 2599

\* the requester's active subscriptions of a category
InCategory(category) ==
    {id \in MineActive :
        (IF store[id][1].category = <<>> THEN <<"o","t","h","e","r">>
         ELSE store[id][1].category) = category}

RECURSIVE BucketSum(_)
BucketSum(buckets) ==
    IF buckets = <<>> THEN 0 ELSE buckets[1].totalCost + BucketSum(Tail(buckets))

\* C15 (as claimed): a record whose billingCycle is none of the five cycles
\* adds 0 to the overview monthlyTotal and 0 to the monthly sum of its
\* category, the response is 200, and the unrounded per-category sums add
\* up to the unrounded overview monthlyTotal.
C15_UniformNormalization ==
    listed # <<>> =>
        /\ listed[1].status = 200
        /\ listed[1].monthlyTotal = EquivalentSum(MineActive)
        /\ \A i \in 1..Len(listed[1].categories) :
              listed[1].categories[i].totalCost
                 = EquivalentSum(InCategory(listed[1].categories[i].category))
        /\ BucketSum(listed[1].categories) = listed[1].monthlyTotal

\* the requester's active subscriptions due within thirty days from now
DueSoon ==
    {id \in MineActive : /\ now <= store[id][1].nextBillingDate
                         /\ store[id][1].nextBillingDate <= now + 30}

\* C16: the upcoming renewals are exactly the requester's active
\* subscriptions with now <= nextBillingDate <= now + 30 days, each once, in
\* ascending nextBillingDate order; count is the length of the list and
\* totalCost the sum of the listed subscriptions' raw cost.
C16_UpcomingRenewals ==
    listed # <<>> =>
        LET up == listed[1].upcomingRenewals
        IN /\ {up.renewals[i] : i \in 1..Len(up.renewals)} = DueSoon
           /\ Len(up.renewals) = Cardinality(DueSoon)
           /\ \A i \in 1..(Len(up.renewals) - 1) :
                 store[up.renewals[i]][1].nextBillingDate
                    <= store[up.renewals[i + 1]][1].nextBillingDate
           /\ up.count = Len(up.renewals)
           /\ up.totalCost = CostSum(DueSoon)

\* C16 witness: of two active subscriptions of the requester the one due
\* exactly now is listed and the one due in 31 days is not
C16_Witness ==
    /\ listed # <<>>
    /\ \E i, j \in MineActive :
          /\ store[i][1].nextBillingDate = now
          /\ store[j][1].nextBillingDate = now + 31
          /\ listed[1].upcomingRenewals.renewals = <<i>>
          /\ listed[1].upcomingRenewals.totalCost = store[i][1].cost

\* position in the scan of the first active subscription of a category
FirstSeen(category) ==
    CHOOSE i \in 1..Len(listed[1].scan) :
        /\ listed[1].scan[i] \in InCategory(category)
        /\ \A j \in 1..(i - 1) : listed[1].scan[j] \notin InCategory(category)

\* C17 (as claimed): every active subscription is counted in exactly one
\* bucket, that of its category or "other"; non-active ones are in none;
\* the list is in non-increasing order of monthlyTotal, and buckets of equal
\* monthlyTotal are in the order their categories were first encountered.
C17_CategoryBreakdown ==
    listed # <<>> =>
        LET cb == listed[1].categoryBreakdown
        IN /\ \A id \in MineActive :
                 Cardinality({i \in 1..Len(cb) : id \in InCategory(cb[i].category)}) = 1
           /\ \A i \in 1..Len(cb) :
                 /\ cb[i].count = Cardinality(InCategory(cb[i].category))
                 /\ cb[i].count > 0
           /\ \A i, j \in 1..Len(cb) : i # j => cb[i].category # cb[j].category
           /\ \A i \in 1..(Len(cb) - 1) : cb[i].monthlyTotal >= cb[i + 1].monthlyTotal
           /\ \A i, j \in 1..Len(cb) :
                 (i < j /\ cb[i].monthlyTotal = cb[j].monthlyTotal)
                 => FirstSeen(cb[i].category) < FirstSeen(cb[j].category)

\* an exact amount rounded once to hundredths, halves upwards
HalfUp(units) ==
    IF 2 * (units % 1200) >= 1200 THEN units \div 1200 + 1 ELSE units \div 1200

KnownCycle(id) == \E i \in 1..5 : store[id][1].billingCycle = validCycles[i]

-----------------------------------------------------------------------------
(* calculateNextBillingDate. A Date is its day number since 1970-01-01; the *)
(* time of day, which the setters keep, is left out.                        *)

\* the civil date of a day number: getFullYear, getMonth (0..11), getDate
CivilFromDays(z) ==
    LET zz == z + 719468
        era == zz \div 146097
        doe == zz - era * 146097
        yoe == (doe - doe \div 1460 + doe \div 36524 - doe \div 146096) \div 365
        doy == doe - (365 * yoe + yoe \div 4 - yoe \div 100)
        mp == (5 * doy + 2) \div 153
        d == doy - (153 * mp + 2) \div 5 + 1
        m == IF mp < 10 THEN mp + 3 ELSE mp - 9
    IN [year |-> yoe + era * 400 + (IF m <= 2 THEN 1 ELSE 0), month |-> m - 1, date |-> d]

\* the day number of year, month (0-based, 12 and more run into the next
\* years) and day of month (one past the month's end runs into the next)
MakeDay(year, month, date) ==
    DaysFromCivil(year + (month \div 12), (month % 12) + 1, date)

\* date.setDate(date.getDate() + n)
AddDays(day, n) ==
    LET c == CivilFromDays(day) IN MakeDay(c.year, c.month, c.date + n)

\* mutant: a day past the end of the target month is cut to its last day
AddMonths_clamped(day, n) ==
    LET c == CivilFromDays(day)
        first == MakeDay(c.year, c.month + n, 1)
        nextFirst == MakeDay(c.year, c.month + n + 1, 1)
    IN IF first + c.date - 1 >= nextFirst THEN nextFirst - 1 ELSE first + c.date - 1

\* date.setMonth(date.getMonth() + n)
AddMonths(day, n) ==
    LET c == CivilFromDays(day) IN MakeDay(c.year, c.month + n, c.date)

\* date.setFullYear(date.getFullYear() + 1)
AddYear(day) ==
    LET c == CivilFromDays(day) IN MakeDay(c.year + 1, c.month, c.date)

\* the call: the result or the error thrown, and the argument after the
\* call (the setters act on date, a copy made by new Date(currentDate))
calculateNextBillingDate(currentDate, billingCycle) ==
    LET date == currentDate
        done(d) == [threw |-> FALSE, message |-> "", date |-> d, currentDate |-> currentDate]
    IN CASE billingCycle = validCycles[1] -> done(AddDays(date, 1))
         [] billingCycle = validCycles[2] -> done(AddDays(date, 7))
         [] billingCycle = validCycles[3] -> done(AddMonths(date, 1))
         [] billingCycle = validCycles[4] -> done(AddMonths(date, 3))
         [] billingCycle = validCycles[5] -> done(AddYear(date))
         [] OTHER -> [threw |-> TRUE, message |-> "Invalid billing cycle", date |-> 0,
                      currentDate |-> currentDate]

-----------------------------------------------------------------------------
(* SpecBilling: calculateNextBillingDate on every day of a span of years    *)
(* that has a leap day, with each cycle and with names that are no cycle    *)

FirstDay == DaysFromCivil(2023, 12, 1)
LastDay == DaysFromCivil(2025, 12, 31)

BillingInit ==
    /\ \E d \in FirstDay..LastDay,
          c \in {validCycles[i] : i \in 1..5}
                \cup {<<"M","o","n","t","h","l","y">>, <<>>} :
          billing = <<[date |-> d, cycle |-> c]>>
    /\ advanced = <<>>
    /\ IdleQuery /\ IdleValidator /\ IdleServer /\ IdleList /\ IdleClock /\ IdleRegister
    /\ IdleTransactions

Advance ==
    /\ advanced = <<>>
    /\ LET out == calculateNextBillingDate(billing[1].date, billing[1].cycle)
       IN /\ advanced' = <<out @@ [given |-> billing[1].date]>>
          /\ billing' = <<[billing[1] EXCEPT !.date = out.currentDate]>>
    /\ UNCHANGED <<query, params, vdata, vmode, vresult, store, nextId, reqs, issued,
                   listUser, listed, now, users, regs, transactions>>

BillingNext == Advance

SpecBilling == BillingInit /\ [][BillingNext]_vars

-----------------------------------------------------------------------------
(* Claims about calculateNextBillingDate *)

LeapYear(y) == (y % 4 = 0 /\ y % 100 # 0) \/ y % 400 = 0

\* days of month m (1..12) of year y
DaysIn(y, m) ==
    IF m = 2 THEN (IF LeapYear(y) THEN 29 ELSE 28)
    ELSE IF m \in {4, 6, 9, 11} THEN 30 ELSE 31

\* the date n calendar months after civil date c: the same day of the
\* target month, or, when the target month is shorter, as many days into
\* the following month as the day lies past its end
MonthsLater(c, n) ==
    LET total == c.month + n
        ty == c.year + (total \div 12)
        tm == (total % 12) + 1
    IN IF c.date <= DaysIn(ty, tm)
       THEN [year |-> ty, month |-> tm - 1, date |-> c.date]
       ELSE [year |-> IF tm = 12 THEN ty + 1 ELSE ty,
             month |-> IF tm = 12 THEN 0 ELSE tm,
             date |-> c.date - DaysIn(ty, tm)]

\* C19: for every date and each of the five cycles the result is a date
\* strictly later than the input and the input is unmodified: daily adds 1
\* day, weekly 7 days, monthly 1, quarterly 3 and yearly 12 calendar months,
\* a day that the target month does not have rolling over into the next
\* month (2025-01-31 monthly gives 2025-03-03); any other cycle raises
\* 'Invalid billing cycle'.
C19_BillingDateAdvance ==
    advanced # <<>> =>
        LET in == advanced[1].given
            out == advanced[1].date
            cycle == billing[1].cycle
            months == CASE cycle = <<"m","o","n","t","h","l","y">> -> 1
                        [] cycle = <<"q","u","a","r","t","e","r","l","y">> -> 3
                        [] cycle = <<"y","e","a","r","l","y">> -> 12
                        [] OTHER -> 0
        IN /\ billing[1].date = in
           /\ IF cycle \in {validCycles[i] : i \in 1..5}
              THEN /\ ~advanced[1].threw
                   /\ out > in
                   /\ cycle = <<"d","a","i","l","y">> => out = in + 1
                   /\ cycle = <<"w","e","e","k","l","y">> => out = in + 7
                   /\ months > 0 => CivilFromDays(out) = MonthsLater(CivilFromDays(in), months)
                   /\ (in = 20119 /\ months = 1) => out = 20150
              ELSE advanced[1].threw /\ advanced[1].message = "Invalid billing cycle"

\* C19 witness: 2025-01-31 advanced by the monthly cycle gave 2025-03-03
C19_Witness ==
    /\ advanced # <<>>
    /\ advanced[1].given = DaysFromCivil(2025, 1, 31)
    /\ billing[1].cycle = validCycles[3]
    /\ CivilFromDays(advanced[1].date) = [year |-> 2025, month |-> 2, date |-> 3]

-----------------------------------------------------------------------------
(* POST /register *)

MaxRegs == 3

MinPasswordLength == 6
MaxPasswordLength == 128
MaxEmailLen == 254
MaxNameLen == 100

\* /^[^\s@]+@[^\s@]+\.[^\s@]+$/
isValidEmail(email) ==
    \E i \in 2..Len(email), j \in 1..Len(email) :
        /\ email[i] = "@"
        /\ j > i + 1 /\ j < Len(email) /\ email[j] = "."
        /\ \A k \in 1..Len(email) : ~IsSpace(email[k]) /\ (email[k] = "@" => k = i)

\* `${field} is required`
FieldRequired(data, field) ==
    IF ~Truthy(data[field]) \/ (IsStr(data[field]) /\ Trim(data[field].v) = <<>>)
    THEN <<field \o " is required">> ELSE <<>>

\* validateInput(data, ['email', 'password'])
validateInput(data) ==
    LET withEmail == IF Truthy(data.email) /\ IsStr(data.email)
                     THEN [data EXCEPT !.email = Str(Lower(Trim(data.email.v)))]
                     ELSE data
        sanitized == IF Truthy(data.name) /\ IsStr(data.name)
                     THEN [withEmail EXCEPT !.name = Str(Trim(data.name.v))]
                     ELSE withEmail
        nameErrors ==
            IF ~Truthy(data.name) THEN <<>>
            ELSE IF ~IsStr(data.name) THEN <<"Name must be a string">>
            ELSE (IF Len(sanitized.name.v) > MaxNameLen
                  THEN <<"Name must not exceed 100 characters">> ELSE <<>>)
                 \o (IF Len(sanitized.name.v) < 1
                     THEN <<"Name cannot be empty">> ELSE <<>>)
        emailErrors ==
            IF ~Truthy(data.email) THEN <<>>
            ELSE IF ~IsStr(data.email) THEN <<"Email must be a string">>
            ELSE (IF isValidEmail(sanitized.email.v) THEN <<>>
                  ELSE <<"Please provide a valid email address">>)
                 \o (IF Len(sanitized.email.v) > MaxEmailLen
                     THEN <<"Email address is too long">> ELSE <<>>)
        errors == FieldRequired(data, "email") \o FieldRequired(data, "password")
                  \o emailErrors \o nameErrors
    IN [isValid |-> errors = <<>>, errors |-> errors, sanitizedData |-> sanitized]

commonPasswords ==
    <<<<"p","a","s","s","w","o","r","d">>,
      <<"1","2","3","4","5","6">>,
      <<"p","a","s","s","w","o","r","d","1","2","3">>,
      <<"a","d","m","i","n">>,
      <<"q","w","e","r","t","y">>,
      <<"l","e","t","m","e","i","n">>,
      <<"w","e","l","c","o","m","e">>,
      <<"m","o","n","k","e","y">>,
      <<"1","2","3","4","5","6","7","8","9","0">>,
      <<"a","b","c","1","2","3">>>>

IsLetter(c) == \E i \in 1..26 : UpperCase[i] = c \/ LowerCase[i] = c

\* validatePassword(password)
validatePassword(password) ==
    IF ~Truthy(password) THEN [isValid |-> FALSE, errors |-> <<"Password is required">>]
    ELSE IF ~IsStr(password)
    THEN [isValid |-> FALSE, errors |-> <<"Password must be a string">>]
    ELSE LET p == password.v
             errors ==
                (IF Len(p) < MinPasswordLength THEN <<"Password must be at least 6 characters long">> ELSE <<>>)
                \o (IF Len(p) > MaxPasswordLength THEN <<"Password must not exceed 128 characters">> ELSE <<>>)
                \o (IF \E i \in 1..Len(p) : IsLetter(p[i]) THEN <<>> ELSE <<"Password must contain at least one letter">>)
                \o (IF Lower(p) \in {commonPasswords[i] : i \in 1..Len(commonPasswords)}
                    THEN <<"Password is too common, please choose a stronger password">> ELSE <<>>)
                \o (IF \E i \in 1..(Len(p) - 3) : \A k \in 1..3 : p[i + k] = p[i]
                    THEN <<"Password cannot contain more than 3 consecutive identical characters">> ELSE <<>>)
         IN [isValid |-> errors = <<>>, errors |-> errors]

\* prisma.user.findUnique({ where: { email } })
FindUser(us, email) == {u \in us : u.email = email}

\* the unique constraint on User.email
UniqueViolation(us, email) == \E u \in us : u.email = email

\* generateTokenPair(user.id)
\* generateToken(userId, { payload: { type } })
generateToken(userId, type) == Jwt(TRUE, FALSE, FALSE, Issuer, Audience, <<userId>>, type)

generateRefreshToken(userId) == generateToken(userId, "refresh")

generateTokenPair(userId) ==
    [accessToken |-> <<generateToken(userId, "")>>,
     refreshToken |-> <<generateRefreshToken(userId)>>]

NoTokens == [accessToken |-> <<>>, refreshToken |-> <<>>]

\* mutant: the catch block has no branch for the unique-constraint code
RegisterCatch_generic(error) ==
    [status |-> 500, error |-> "Internal server error"]

\* the catch block of the handler
RegisterCatch(error) ==
    IF error.code = "P2002" THEN [status |-> 400, error |-> "User already exists"]
    ELSE IF error.name = "PrismaClientKnownRequestError"
    THEN [status |-> 500, error |-> "Database error"]
    ELSE [status |-> 500, error |-> "Internal server error"]

\* hashPassword(password): the bcrypt hash, which only its password matches
hashPassword(password) == [hash |-> password]

\* mutant: every password matches
comparePassword_any(password, hashedPassword) == TRUE

\* comparePassword(password, hashedPassword)
comparePassword(password, hashedPassword) == hashedPassword.hash = password

\* select: { id, email, name, createdAt, updatedAt }
SelectUser(u) == [id |-> u.id, email |-> u.email, name |-> u.name]

\* a request slot: the route and what was sent, the handler's position and
\* locals, and the response (status, error, message, user, tokens)
IdleReg ==
    [pc |-> "idle", kind |-> "",
     body |-> [email |-> Undefined, password |-> Undefined, name |-> Undefined],
     refreshToken |-> Undefined, header |-> NoHeader,
     email |-> <<>>, name |-> Undefined, found |-> <<>>,
     status |-> 0, error |-> "", message |-> "", caught |-> "", user |-> 0,
     profile |-> <<>>, tokens |-> NoTokens]

RegisterAnswer(reg, status, error) ==
    [reg EXCEPT !.pc = "done", !.status = status, !.error = error]

RegisterEmails ==
    {Undefined,
     Str(<<" ","A","@","b",".","c">>),
     Str(<<"a","@","b",".","c">>),
     Str(<<"c","@","b",".","c">>),
     Str(<<"a","@","b">>)}

RegisterPasswords ==
    {Str(<<"s","e","c","r","e","t">>), Str(<<"a","a","a","a","b","c">>)}

RegisterInit ==
    /\ users = {}
    /\ regs = [r \in 1..MaxRegs |-> IdleReg]
    /\ IdleQuery /\ IdleValidator /\ IdleServer /\ IdleList /\ IdleClock /\ IdleBilling /\ IdleTransactions

RegisterUnchanged ==
    UNCHANGED <<query, params, vdata, vmode, vresult, store, nextId, reqs, issued,
                listUser, listed, now, billing, advanced, transactions>>

\* the handler up to its first await, for one body: both validations
RegisterBody(r, body) ==
    LET validation == validateInput(body)
        passwordValidation == validatePassword(validation.sanitizedData.password)
        reg == [regs[r] EXCEPT !.kind = "register", !.body = body]
    IN /\ regs[r].pc = "idle"
       /\ regs' = [regs EXCEPT ![r] =
              IF ~validation.isValid
              THEN RegisterAnswer(reg, 400, "Validation failed")
              ELSE IF ~passwordValidation.isValid
              THEN RegisterAnswer(reg, 400, "Password validation failed")
              ELSE [reg EXCEPT !.pc = "findUnique",
                               !.email = validation.sanitizedData.email.v,
                               !.name = validation.sanitizedData.name]]
       /\ UNCHANGED users
       /\ RegisterUnchanged

\* a registration arrives; requests take the slots in order, the slots
\* being interchangeable
Register(r) ==
    /\ r > 1 => regs[r - 1].pc # "idle"
    /\ \E email \in RegisterEmails, password \in RegisterPasswords :
         RegisterBody(r, [email |-> email, password |-> password, name |-> Undefined])

\* await prisma.user.findUnique
FindUnique(r) ==
    /\ regs[r].pc = "findUnique"
    /\ regs' = [regs EXCEPT ![r] =
            IF FindUser(users, regs[r].email) # {}
            THEN RegisterAnswer(@, 400, "User already exists")
            ELSE [@ EXCEPT !.pc = "hashPassword"]]
    /\ UNCHANGED users
    /\ RegisterUnchanged

\* await hashPassword
HashPassword(r) ==
    /\ regs[r].pc = "hashPassword"
    /\ regs' = [regs EXCEPT ![r].pc = "create"]
    /\ UNCHANGED users
    /\ RegisterUnchanged

\* await prisma.user.create, then the token pair and the 201, or the catch
CreateUser(r) ==
    /\ regs[r].pc = "create"
    /\ IF UniqueViolation(users, regs[r].email)
       THEN LET error == [code |-> "P2002", name |-> "PrismaClientKnownRequestError"]
                answer == RegisterCatch(error)
            IN /\ regs' = [regs EXCEPT ![r] =
                      [RegisterAnswer(@, answer.status, answer.error)
                          EXCEPT !.caught = error.code]]
               /\ UNCHANGED users
       ELSE LET id == Cardinality(users) + 1
                user == [id |-> id, email |-> regs[r].email,
                         password |-> hashPassword(regs[r].body.password.v),
                         name |-> IF Truthy(regs[r].name) THEN regs[r].name ELSE Null]
            IN /\ users' = users \cup {user}
               /\ regs' = [regs EXCEPT ![r] =
                      [RegisterAnswer(@, 201, "") EXCEPT
                          !.user = id, !.profile = <<SelectUser(user)>>,
                          !.tokens = generateTokenPair(id)]]
    /\ RegisterUnchanged

RegisterNext ==
    \E r \in 1..MaxRegs :
        \/ Register(r)
        \/ FindUnique(r)
        \/ HashPassword(r)
        \/ CreateUser(r)

SpecRegister == RegisterInit /\ [][RegisterNext]_vars

\* the trimmed, lower-cased email of a request, <<>> when it has none
NormalizedEmail(reg) ==
    IF IsStr(reg.body.email) THEN Lower(Trim(reg.body.email.v)) ELSE <<>>

\* requests with a well-formed email e and an acceptable password
Registering(e) ==
    IF ~isValidEmail(e) THEN {}
    ELSE {r \in 1..MaxRegs :
            /\ regs[r].pc # "idle"
            /\ NormalizedEmail(regs[r]) = e
            /\ validatePassword(regs[r].body.password).isValid}

\* C20: after any interleaving of registrations no two stored users have
\* the same trimmed, lower-cased email; of the registrations of one email
\* with valid passwords at most one is answered 201, with a token pair, and
\* once all are answered exactly one is; every other one is answered 400
\* 'User already exists', none 500; and the stored users are exactly those
\* of the 201 answers, so a rejected registration creates none.
C20_UniqueRegistration ==
    /\ \A u1, u2 \in users :
         Lower(Trim(u1.email)) = Lower(Trim(u2.email)) => u1 = u2
    /\ \A e \in {NormalizedEmail(regs[r]) : r \in 1..MaxRegs} :
         \A group \in {Registering(e)} :
         LET created == {r \in group : regs[r].status = 201}
         IN /\ Cardinality(created) <= 1
            /\ (group # {} /\ \A r \in group : regs[r].pc = "done")
                  => Cardinality(created) = 1
            /\ \A r \in group : regs[r].pc = "done" =>
                 \/ /\ regs[r].status = 201
                    /\ regs[r].tokens.accessToken # <<>>
                    /\ regs[r].tokens.refreshToken # <<>>
                    /\ \E u \in users : u.id = regs[r].user
                                        /\ u.email = NormalizedEmail(regs[r])
                 \/ /\ regs[r].status = 400
                    /\ regs[r].error = "User already exists"
    /\ \A r \in 1..MaxRegs : regs[r].status # 500
    /\ {u.id : u \in users} = {regs[r].user : r \in {q \in 1..MaxRegs : regs[q].status = 201}}
    /\ Cardinality(users) = Cardinality({r \in 1..MaxRegs : regs[r].status = 201})

\* C20 witness: two registrations of one email, written differently, raced
\* past the lookup; one created the user, the other hit the unique constraint
C20_Witness ==
    \E r1, r2 \in 1..MaxRegs :
        /\ regs[r1].status = 201 /\ regs[r1].tokens # NoTokens
        /\ regs[r2].status = 400 /\ regs[r2].caught = "P2002"
        /\ regs[r1].body.email # regs[r2].body.email
        /\ NormalizedEmail(regs[r1]) = NormalizedEmail(regs[r2])
        /\ Cardinality(users) = 1

-----------------------------------------------------------------------------
(* The auth routes: register, login, refresh and the profile *)

MaxAuthSlots == 2

\* the id of a user that was deleted: no row has it, no registration gets it
DeletedUser == MaxAuthSlots + 2

\* the messages of the errors verifyToken throws
TokenRequired ==
    <<"T","o","k","e","n"," ","i","s"," ","r","e","q","u","i","r","e","d"," ","f","o","r"," ","v","e","r","i","f","i","c","a","t","i","o","n">>
InvalidFormat ==
    <<"I","n","v","a","l","i","d"," ","t","o","k","e","n"," ","f","o","r","m","a","t"," ","o","r"," ","s","i","g","n","a","t","u","r","e">>
HasExpired ==
    <<"T","o","k","e","n"," ","h","a","s"," ","e","x","p","i","r","e","d">>
NotActive ==
    <<"T","o","k","e","n"," ","i","s"," ","n","o","t"," ","a","c","t","i","v","e"," ","y","e","t">>
MissingUserId ==
    <<"I","n","v","a","l","i","d"," ","t","o","k","e","n",":"," ","m","i","s","s","i","n","g"," ","u","s","e","r","I","d">>

Threw(message) == [threw |-> TRUE, message |-> message]

\* verifyToken(token): jwt.verify with the issuer and the audience, then the
\* userId of the payload; token is <<>> when falsy
verifyToken(token) ==
    IF token = <<>> THEN Threw(TokenRequired)
    ELSE LET v == jwtVerify(token[1])
         IN IF ~v.ok
            THEN CASE v.error = "JsonWebTokenError" -> Threw(InvalidFormat)
                   [] v.error = "TokenExpiredError" -> Threw(HasExpired)
                   [] v.error = "NotBeforeError" -> Threw(NotActive)
            ELSE IF token[1].aud # Audience \/ token[1].iss # Issuer
            THEN Threw(InvalidFormat)
            ELSE IF token[1].userId = <<>> THEN Threw(MissingUserId)
            ELSE [threw |-> FALSE, message |-> <<>>]

AuthAnswer(reg, status, error, message) ==
    [reg EXCEPT !.pc = "done", !.status = status, !.error = error, !.message = message]

\* the catch block of POST /refresh
RefreshCatch(reg, message) ==
    IF Contains(message, <<"T","o","k","e","n"," ","h","a","s"," ","e","x","p","i","r","e","d">>)
    THEN AuthAnswer(reg, 401, "Token expired", "Refresh token has expired, please login again")
    ELSE IF Contains(message, <<"I","n","v","a","l","i","d"," ","t","o","k","e","n">>)
    THEN AuthAnswer(reg, 401, "Invalid token", "Invalid refresh token")
    ELSE AuthAnswer(reg, 500, "Internal server error", "Unable to refresh tokens at this time")

ExampleEmail == Str(<<"u","s","e","r","@","e","x","a","m","p","l","e",".","c","o","m">>)
ExamplePassword == Str(<<"p","a","s","s","w","o","r","d","1","2","3">>)
ExampleName == Str(<<"J","o","h","n"," ","D","o","e">>)

SeedEmail == Str(<<"t","e","s","t","@","e","x","a","m","p","l","e",".","c","o","m">>)
SeedPassword == Str(<<"M","y","S","e","c","u","r","e","2","0","2","4","!","P","a","s","s">>)
SeedName == Str(<<"T","e","s","t"," ","U","s","e","r">>)

\* the user of prisma/seed.js
SeedUser ==
    [id |-> 1, email |-> SeedEmail.v, password |-> hashPassword(SeedPassword.v),
     name |-> SeedName]

\* registrations: the README's example and the seed user's data
AuthRegisterBodies ==
    {[email |-> ExampleEmail, password |-> ExamplePassword, name |-> ExampleName],
     [email |-> SeedEmail, password |-> SeedPassword, name |-> SeedName]}

\* logins: either email with either password, and one without a password
LoginBodies ==
    {[email |-> e, password |-> p, name |-> Undefined] :
        e \in {ExampleEmail, SeedEmail}, p \in {ExamplePassword, SeedPassword}}
    \cup {[email |-> SeedEmail, password |-> Undefined, name |-> Undefined]}

\* refresh tokens presented: none; the refresh and the access token of the
\* first user; a bad signature, an expired one, one not active yet, one
\* without userId, one of another issuer, one for another audience; the
\* refresh tokens of a deleted user and of the second user
RefreshTokens ==
    {<<>>,
     <<generateRefreshToken(1)>>,
     <<generateToken(1, "")>>,
     <<Jwt(FALSE, FALSE, FALSE, Issuer, Audience, <<1>>, "refresh")>>,
     <<Jwt(TRUE, TRUE, FALSE, Issuer, Audience, <<1>>, "refresh")>>,
     <<Jwt(TRUE, FALSE, TRUE, Issuer, Audience, <<1>>, "refresh")>>,
     <<Jwt(TRUE, FALSE, FALSE, Issuer, Audience, <<>>, "refresh")>>,
     <<Jwt(TRUE, FALSE, FALSE, "other", Audience, <<1>>, "refresh")>>,
     <<Jwt(TRUE, FALSE, FALSE, Issuer, "other", <<1>>, "refresh")>>,
     <<generateRefreshToken(DeletedUser)>>,
     <<generateRefreshToken(2)>>}

\* Authorization headers of GET /me: none, the first user's access token,
\* the first user's refresh token, a deleted user's access token
MeHeaders ==
    {NoHeader,
     Header("Bearer ", <<generateToken(1, "")>>),
     Header("Bearer ", <<generateRefreshToken(1)>>),
     Header("Bearer ", <<generateToken(DeletedUser, "")>>)}

AuthInit ==
    /\ users \in {{}, {SeedUser}}
    /\ regs = [r \in 1..MaxAuthSlots |-> IdleReg]
    /\ IdleQuery /\ IdleValidator /\ IdleServer /\ IdleList /\ IdleClock /\ IdleBilling /\ IdleTransactions

\* requests take the slots in order, the slots being interchangeable
FreeSlot(r) == regs[r].pc = "idle" /\ (r > 1 => regs[r - 1].pc # "idle")

AuthRegister(r) ==
    /\ FreeSlot(r)
    /\ \E body \in AuthRegisterBodies : RegisterBody(r, body)

\* POST /login up to its first await
Login(r) ==
    /\ FreeSlot(r)
    /\ \E body \in LoginBodies :
         LET validation == validateInput(body)
             reg == [regs[r] EXCEPT !.kind = "login", !.body = body]
         IN regs' = [regs EXCEPT ![r] =
                IF ~validation.isValid
                THEN AuthAnswer(reg, 400, "Validation failed",
                                "Please provide valid email and password")
                ELSE [reg EXCEPT !.pc = "loginFind",
                                 !.email = validation.sanitizedData.email.v]]
    /\ UNCHANGED users
    /\ RegisterUnchanged

\* await prisma.user.findUnique
LoginFind(r) ==
    /\ regs[r].pc = "loginFind"
    /\ LET found == FindUser(users, regs[r].email)
       IN regs' = [regs EXCEPT ![r] =
              IF found = {}
              THEN AuthAnswer(@, 401, "Invalid credentials", "Email or password is incorrect")
              ELSE [@ EXCEPT !.pc = "compare", !.found = <<CHOOSE u \in found : TRUE>>]]
    /\ UNCHANGED users
    /\ RegisterUnchanged

\* await comparePassword, then the token pair and the user without password
LoginCompare(r) ==
    /\ regs[r].pc = "compare"
    /\ LET user == regs[r].found[1]
           password == regs[r].body.password
       IN regs' = [regs EXCEPT ![r] =
              IF ~IsStr(password)
              THEN AuthAnswer(@, 500, "Internal server error",
                              "Unable to process login request at this time")
              ELSE IF ~comparePassword(password.v, user.password)
              THEN AuthAnswer(@, 401, "Invalid credentials", "Email or password is incorrect")
              ELSE [AuthAnswer(@, 200, "", "Login successful") EXCEPT
                       !.user = user.id,
                       !.profile = <<[k \in DOMAIN user \ {"password"} |-> user[k]]>>,
                       !.tokens = generateTokenPair(user.id)]]
    /\ UNCHANGED users
    /\ RegisterUnchanged

\* POST /refresh up to its await
Refresh(r) ==
    /\ FreeSlot(r)
    /\ \E refreshToken \in RefreshTokens :
         LET reg == [regs[r] EXCEPT !.kind = "refresh", !.refreshToken = refreshToken]
             decoded == verifyToken(refreshToken)
         IN regs' = [regs EXCEPT ![r] =
                IF refreshToken = <<>>
                THEN AuthAnswer(reg, 400, "Validation failed", "Refresh token is required")
                ELSE IF decoded.threw THEN RefreshCatch(reg, decoded.message)
                ELSE IF refreshToken[1].type # "refresh"
                THEN AuthAnswer(reg, 401, "Invalid token", "Invalid refresh token")
                ELSE [reg EXCEPT !.pc = "refreshFind", !.user = refreshToken[1].userId[1]]]
    /\ UNCHANGED users
    /\ RegisterUnchanged

\* await prisma.user.findUnique, then the new token pair
RefreshFind(r) ==
    /\ regs[r].pc = "refreshFind"
    /\ LET found == {u \in users : u.id = regs[r].user}
       IN regs' = [regs EXCEPT ![r] =
              IF found = {}
              THEN AuthAnswer([@ EXCEPT !.user = 0], 401, "User not found",
                              "User account no longer exists")
              ELSE [AuthAnswer(@, 200, "", "Tokens refreshed successfully") EXCEPT
                       !.profile = <<SelectUser(CHOOSE u \in found : TRUE)>>,
                       !.tokens = generateTokenPair(regs[r].user)]]
    /\ UNCHANGED users
    /\ RegisterUnchanged

\* GET /me: the auth middleware
Me(r) ==
    /\ FreeSlot(r)
    /\ \E header \in MeHeaders :
         LET reg == [regs[r] EXCEPT !.kind = "me", !.header = header]
             a == authAmong(header, {u.id : u \in users})
         IN regs' = [regs EXCEPT ![r] =
                IF a.status # 0 THEN AuthAnswer(reg, a.status, "Access denied", a.message)
                ELSE [reg EXCEPT !.pc = "meFind", !.user = a.user[1]]]
    /\ UNCHANGED users
    /\ RegisterUnchanged

\* GET /me: the handler
MeFind(r) ==
    /\ regs[r].pc = "meFind"
    /\ LET found == {u \in users : u.id = regs[r].user}
       IN regs' = [regs EXCEPT ![r] =
              IF found = {}
              THEN AuthAnswer(@, 404, "User not found", "User account no longer exists")
              ELSE [AuthAnswer(@, 200, "", "User profile retrieved successfully") EXCEPT
                       !.profile = <<SelectUser(CHOOSE u \in found : TRUE)>>]]
    /\ UNCHANGED users
    /\ RegisterUnchanged

AuthNext ==
    \E r \in 1..MaxAuthSlots :
        \/ AuthRegister(r)
        \/ FindUnique(r)
        \/ HashPassword(r)
        \/ CreateUser(r)
        \/ Login(r)
        \/ LoginFind(r)
        \/ LoginCompare(r)
        \/ Refresh(r)
        \/ RefreshFind(r)
        \/ Me(r)
        \/ MeFind(r)

SpecAuth == AuthInit /\ [][AuthNext]_vars

-----------------------------------------------------------------------------
(* Claims about the auth routes *)

\* the token verifies (signature, expiry, activity, issuer, audience), is a
\* refresh token, and its userId names a stored user
Refreshable(token) ==
    /\ token # <<>>
    /\ token[1].sig /\ ~token[1].expired /\ ~token[1].notBefore
    /\ token[1].iss = Issuer /\ token[1].aud = Audience
    /\ token[1].type = "refresh"
    /\ token[1].userId # <<>>
    /\ \E u \in users : u.id = token[1].userId[1]

\* C21: POST /refresh issues a new token pair only for a token that
\* verifies, has type 'refresh' and names an existing user; a missing token
\* is answered 400; every other token (bad signature, expired, not yet
\* active, missing userId, access token, deleted user) is answered 401 with
\* no tokens issued, never 500.
C21_TokenRefresh ==
    \A r \in 1..MaxAuthSlots :
        (regs[r].kind = "refresh" /\ regs[r].pc = "done") =>
            /\ regs[r].status \in {200, 400, 401}
            /\ regs[r].status = 200 =>
                 Refreshable(regs[r].refreshToken) /\ regs[r].tokens # NoTokens
            /\ regs[r].status = 400 <=> regs[r].refreshToken = <<>>
            /\ regs[r].status # 200 => regs[r].tokens = NoTokens

\* C22: the README's registration example works: on a store with no such
\* user the documented body passes both validations and the account is
\* created (201), and the documented login with the same credentials, once
\* the account is found, succeeds.
C22_ReadmeExample ==
    \A r \in 1..MaxAuthSlots :
        /\ ( /\ regs[r].kind = "register" /\ regs[r].pc = "done"
             /\ regs[r].body = [email |-> ExampleEmail, password |-> ExamplePassword,
                                name |-> ExampleName]
             /\ ~\E u \in users : u.email = ExampleEmail.v )
           => regs[r].status = 201
        /\ ( /\ regs[r].kind = "login" /\ regs[r].pc = "done"
             /\ regs[r].body.email = ExampleEmail
             /\ regs[r].body.password = ExamplePassword
             /\ regs[r].found # <<>> )
           => regs[r].status = 200

\* C28: the auth middleware authenticates a request only with an access
\* token: a token issued by generateRefreshToken presented as the Bearer
\* credential of a protected route is answered 401 and sets no req.user.
C28_RefreshTokenRejected ==
    \A r \in 1..MaxAuthSlots :
        ( /\ regs[r].kind = "me"
          /\ regs[r].header.present
          /\ regs[r].header.token # <<>>
          /\ regs[r].header.token[1].type = "refresh" )
        => regs[r].pc = "done" /\ regs[r].status = 401 /\ regs[r].user = 0

\* what the client receives
Response(reg) ==
    [status |-> reg.status, error |-> reg.error, message |-> reg.message,
     user |-> reg.profile, tokens |-> reg.tokens]

\* a login whose body passed validation and was answered
AnsweredLogin(r) ==
    /\ regs[r].kind = "login" /\ regs[r].pc = "done"
    /\ regs[r].status # 400

-----------------------------------------------------------------------------
(* SpecOwner: the owner's DELETE and PUT requests on one stored            *)
(* subscription that has transactions, handled concurrently                *)

Transaction(id, subscriptionId, amount, status) ==
    [id |-> id, subscriptionId |-> subscriptionId, amount |-> amount, status |-> status]

\* the subscription the requests name
Target == 1

\* subscription 1 of user A and, or not, subscription 2 of user B
OwnerStores ==
    {[i \in SubIds |->
        IF i = Target THEN <<ARow(UserA, validStatuses[1], validCycles[3], 1599, <<"a">>, Today)>>
        ELSE IF i = 2 /\ other THEN <<ARow(UserB, validStatuses[1], validCycles[5], 12000, <<"b">>, Today)>>
        ELSE <<>>] : other \in BOOLEAN}

\* a completed and a pending transaction per stored subscription
TransactionsOf(st) ==
    UNION {{Transaction(2 * i - 1, i, 1599, "completed"), Transaction(2 * i, i, 1599, "pending")} :
              i \in {j \in SubIds : st[j] # <<>>}}

OwnerHeader == Header("Bearer ", <<Token(TRUE, FALSE, <<UserA>>)>>)

\* DELETE /1, and PUT /1 with a status or a cost
OwnerRequests ==
    {[NoReq EXCEPT !.pc = "auth", !.hdr = OwnerHeader, !.kind = "delete", !.id = Target]}
    \cup {[NoReq EXCEPT !.pc = "auth", !.hdr = OwnerHeader, !.kind = "update", !.id = Target,
                        !.body = body] :
             body \in {[status |-> Str(validStatuses[3])], [cost |-> Num(2000)]}}

OwnerInit ==
    /\ store \in OwnerStores
    /\ transactions = TransactionsOf(store)
    /\ nextId = MaxSubs + 1 /\ reqs = NoReqs /\ issued = 0
    /\ IdleQuery /\ IdleValidator /\ IdleList /\ IdleClock /\ IdleBilling /\ IdleRegister

ReceiveOwner(r) == Arrive(r, MaxIssued, OwnerRequests)

OwnerNext ==
    \E r \in Slots :
        \/ ReceiveOwner(r)
        \/ Auth(r)
        \/ CheckOwner(r)
        \/ Update(r)
        \/ Delete(r)

SpecOwner == OwnerInit /\ [][OwnerNext]_vars

\* request r is answered in this step
AnsweredNow(r) == reqs[r].pc \notin {"idle", "done"} /\ reqs'[r].pc = "done"

Gone(st, txs) == st[Target] = <<>> /\ \A t \in txs : t.subscriptionId # Target

\* C24: for any interleaving of the owner's DELETE and PUT requests on one
\* existing subscription each request is answered 200 or 404, never 500;
\* at most one DELETE is answered 200: a DELETE is answered 200 only by the
\* step that removes the subscription with its transactions, and a removed
\* subscription stays absent; a request that reaches storage after the
\* delete is answered 404 and changes nothing.
C24_ConcurrentMutation ==
    /\ [](\A r \in Slots : Answered(r) => reqs[r].status \in {200, 404})
    /\ [](Cardinality({r \in Slots : Answered(r) /\ reqs[r].kind = "delete"
                                     /\ reqs[r].status = 200}) <= 1)
    /\ []((\E r \in Slots : Answered(r) /\ reqs[r].kind = "delete" /\ reqs[r].status = 200)
             => Gone(store, transactions))
    /\ [][ /\ store[Target] = <<>> => store'[Target] = <<>>
           /\ \A r \in Slots :
                /\ (AnsweredNow(r) /\ reqs[r].kind = "delete" /\ reqs'[r].status = 200)
                      => store[Target] # <<>> /\ Gone(store', transactions')
                /\ (AnsweredNow(r) /\ reqs[r].pc = "checked" /\ store[Target] = <<>>)
                      => /\ reqs'[r].status = 404
                         /\ store' = store /\ transactions' = transactions
         ]_vars

\* C24 witness: a DELETE was answered 200 and an update that had passed the
\* ownership check before it was answered 404; the subscription and its
\* transactions are gone
C24_Witness ==
    \E r1, r2 \in Slots :
        /\ Answered(r1) /\ reqs[r1].kind = "delete" /\ reqs[r1].status = 200
        /\ Answered(r2) /\ reqs[r2].kind = "update" /\ reqs[r2].status = 404
        /\ reqs[r2].msg = GONE
        /\ Gone(store, transactions)

-----------------------------------------------------------------------------
(* SpecFaults: one client's requests, one at a time, on a database whose   *)
(* every operation may fail                                                *)

\* mutant: a failed storage call is reported as 503 Service unavailable
StorageFailed_unavailable(kind) == [status |-> 503, msg |-> "Service unavailable"]

\* the catch block of a handler, for an error that is no P2025
StorageFailed(kind) ==
    [status |-> 500,
     msg |-> IF kind = "create" THEN "Database error" ELSE "Internal server error"]

\* the body of a POST or PUT fails validation
Rejected(req) ==
    /\ req.kind \in {"create", "update"}
    /\ ~validateSubscriptionInput(req.body, req.kind = "update").isValid

\* the next step of the request is a storage call: the user lookup of auth
\* once the token verified, the queries of a handler once the body passed
\* validation
ReachesStorage(req) ==
    IF req.pc = "auth"
    THEN /\ req.hdr.present /\ req.hdr.scheme = "Bearer " /\ req.hdr.token # <<>>
         /\ jwtVerify(req.hdr.token[1]).ok
         /\ req.hdr.token[1].userId # <<>>
    ELSE IF req.pc = "handler"
    THEN ~Rejected(req)
    ELSE req.pc = "checked"

\* the storage call of the request's next step fails; nothing is written
Fault(r) ==
    /\ ReachesStorage(reqs[r])
    /\ LET failed == StorageFailed(reqs[r].kind)
       IN reqs' = [reqs EXCEPT ![r] =
              IF reqs[r].pc = "auth" THEN Respond(@, 500, "Authentication failed")
              ELSE Respond(@, failed.status, failed.msg)]
    /\ UNCHANGED <<store, nextId, issued, query, params, vdata, vmode, vresult, listUser,
                   listed, now, billing, advanced, users, regs, transactions>>

\* an expired token and a valid one
FaultHeaders ==
    {Header("Bearer ", <<Token(TRUE, TRUE, <<UserA>>)>>),
     Header("Bearer ", <<Token(TRUE, FALSE, <<UserA>>)>>)}

ReceiveFaulty(r) == Arrive(r, MaxIssued, Requests(FaultHeaders))

FaultNext ==
    \/ ReceiveFaulty(1)
    \/ Auth(1)
    \/ RunQuery(1)
    \/ Create(1)
    \/ GetOne(1)
    \/ CheckOwner(1)
    \/ Update(1)
    \/ Delete(1)
    \/ Fault(1)

SpecFaults == Init /\ [][FaultNext]_vars

-----------------------------------------------------------------------------
(* SpecPage: GET / with any page and limit on tables of both users' rows   *)

\* page and limit as the query string gives them
RawPage == {Undefined, Str(<<"0">>), Str(<<"1">>), Str(<<"2">>), Str(<<"3">>), Str(<<"-","1">>)}
RawLimit ==
    {Undefined, Str(<<"0">>), Str(<<"1">>), Str(<<"2">>), Str(<<"1","0","0">>),
     Str(<<"1","0","1">>), Str(<<"-","5">>), Str(<<"a">>)}

PageInit ==
    /\ store \in [SubIds -> {<<>>} \cup
                    {<<ARow(u, validStatuses[1], validCycles[3], 1599, <<"a">>, Today)>> :
                        u \in Users}]
    /\ nextId = MaxSubs + 1
    /\ reqs = NoReqs /\ issued = 0
    /\ listUser \in Users
    /\ \E page \in RawPage, limit \in RawLimit :
          query = [EmptyQuery EXCEPT !.page = page, !.limit = limit]
    /\ params = <<>>
    /\ listed = <<>>
    /\ IdleValidator /\ IdleClock /\ IdleBilling /\ IdleTransactions /\ IdleRegister

SpecPage == PageInit /\ [][ListNext]_vars

\* C26: a successful GET / response carries at most itemsPerPage items,
\* with 1 <= itemsPerPage <= 100 whatever limit was asked and however many
\* subscriptions the user has; totalPages = ceil(totalItems / itemsPerPage),
\* hasNextPage iff currentPage < totalPages, hasPrevPage iff currentPage > 1.
C26_BoundedPage ==
    listed # <<>> =>
        LET pg == listed[1].pagination
            mine == {id \in SubIds : store[id] # <<>> /\ store[id][1].userId = listUser}
        IN /\ Len(listed[1].data) <= pg.itemsPerPage
           /\ pg.itemsPerPage >= 1 /\ pg.itemsPerPage <= 100
           /\ pg.totalItems = Cardinality(mine)
           /\ pg.totalPages * pg.itemsPerPage >= pg.totalItems
           /\ (pg.totalPages - 1) * pg.itemsPerPage < pg.totalItems
                 \/ (pg.totalItems = 0 /\ pg.totalPages = 0)
           /\ pg.hasNextPage <=> pg.currentPage < pg.totalPages
           /\ pg.hasPrevPage <=> pg.currentPage > 1
           /\ \A i \in 1..Len(listed[1].data) : listed[1].data[i] \in mine

\* C26 witness: limit 1 on a user with two subscriptions gave one item of
\* two pages
C26_Witness ==
    /\ listed # <<>>
    /\ query.limit = Str(<<"1">>)
    /\ Cardinality({id \in SubIds : store[id] # <<>> /\ store[id][1].userId = listUser}) >= 2
    /\ Len(listed[1].data) = 1
    /\ listed[1].pagination.totalPages >= 2
    /\ listed[1].pagination.hasNextPage

-----------------------------------------------------------------------------
(* SpecSnapshot: GET /analytics of a user handled concurrently with the    *)
(* same user's POST, PUT and DELETE requests. The five queries of the      *)
(* Promise.all resolve one per step, each on the tables of its instant;    *)
(* the handler keeps their results and builds the response from them.      *)

RECURSIVE SumAmounts(_)
SumAmounts(txs) ==
    IF txs = {} THEN 0
    ELSE LET t == CHOOSE x \in txs : TRUE IN t.amount + SumAmounts(txs \ {t})

\* mutant: the aggregate sums the transactions of every status
Aggregate_anyStatus(txs, st, userId) ==
    LET rows == {t \in txs : /\ st[t.subscriptionId] # <<>>
                             /\ st[t.subscriptionId][1].userId = userId}
    IN IF rows = {} THEN Null ELSE Num(SumAmounts(rows))

\* prisma.transaction.aggregate({ where: { subscription: { userId },
\* status: 'completed' }, _sum: { amount: true } }): _sum.amount, null when
\* no row matches
Aggregate(txs, st, userId) ==
    LET rows == {t \in txs : /\ st[t.subscriptionId] # <<>>
                             /\ st[t.subscriptionId][1].userId = userId
                             /\ t.status = "completed"}
    IN IF rows = {} THEN Null ELSE Num(SumAmounts(rows))

\* totalSpent._sum.amount || 0
TotalSpent(amount) == IF amount.t = "number" /\ amount.v # 0 THEN amount.v ELSE 0

\* the results query qn of the Promise.all can resolve to on these tables
QueryResults(qn, st, txs, userId, clock) ==
    CASE qn = "total" -> {Cardinality(FindMany(st, "userId" :> userId))}
      [] qn = "active" ->
            {Cardinality(FindMany(st, ("userId" :> userId)
                                      @@ ("status" :> Str(validStatuses[1]))))}
      [] qn = "all" ->
            {[i \in 1..Len(scan) |-> st[scan[i]][1]] : scan \in AllOf(st, userId)}
      [] qn = "upcoming" ->
            {[i \in 1..Len(o) |-> [id |-> o[i], cost |-> st[o[i]][1].cost]] :
                o \in UpcomingRenewals(st, userId, clock)}
      [] qn = "spent" -> {Aggregate(txs, st, userId)}

\* res.json({ data: { overview, upcomingRenewals, categoryBreakdown } })
AnalyticsData(got) ==
    [overview |-> [totalSubscriptions |-> got.total,
                   activeSubscriptions |-> got.active,
                   inactiveSubscriptions |-> got.total - got.active,
                   monthlyTotal |-> Round2(MonthlyTotal(got.all)),
                   yearlyTotal |-> Round2(YearlyTotal(MonthlyTotal(got.all))),
                   totalSpent |-> TotalSpent(got.spent)],
     upcomingRenewals |-> [count |-> Len(got.upcoming), renewals |-> got.upcoming],
     categoryBreakdown |-> CategoryBreakdown(got.all)]

\* GET /analytics: one of the five queries resolves and its result is
\* kept; after the last one the response is built and sent
ReadSnapshot(r) ==
    /\ reqs[r].pc = "handler"
    /\ reqs[r].kind = "analytics"
    /\ \E qn \in reqs[r].pending :
       \E result \in QueryResults(qn, store, transactions, reqs[r].user[1], now) :
          LET after == [reqs[r] EXCEPT
                          !.pending = @ \ {qn},
                          !.touched = TRUE,
                          !.got = [@ EXCEPT ![qn] = result]]
          IN reqs' = [reqs EXCEPT ![r] =
                 IF after.pending = {}
                 THEN Respond([after EXCEPT !.data = <<AnalyticsData(after.got)>>],
                              200, "retrieved")
                 ELSE after]
    /\ UNCHANGED <<store, nextId, issued, query, params, vdata, vmode, vresult, listUser,
                   listed, now, billing, advanced, users, regs, transactions>>

\* the tables at the start: none; subscription 1 of user A; that and
\* subscription 2 of user B
SnapshotStores ==
    {[i \in SubIds |-> <<>>]}
    \cup {[i \in SubIds |->
            IF i = Target
            THEN <<ARow(UserA, validStatuses[1], validCycles[3], 1599, <<"a">>, Today + 5)>>
            ELSE IF i = 2 /\ other
            THEN <<ARow(UserB, validStatuses[1], validCycles[5], 12000, <<"b">>, Today)>>
            ELSE <<>>] : other \in BOOLEAN}

\* per stored subscription two completed transactions, a pending and a
\* failed one
SnapshotTransactions(st) ==
    UNION {{Transaction(4 * i - 3, i, 1599, "completed"),
            Transaction(4 * i - 2, i, 401 * i, "completed"),
            Transaction(4 * i - 1, i, 1599, "pending"),
            Transaction(4 * i, i, 1599, "failed")} :
              i \in {j \in SubIds : st[j] # <<>>}}

\* GET /analytics, POST / with a valid body, PUT /1 with a status (away
\* from active and back) and DELETE /1
SnapshotRequests ==
    {[NoReq EXCEPT !.pc = "auth", !.hdr = OwnerHeader, !.kind = "analytics"],
     [NoReq EXCEPT !.pc = "auth", !.hdr = OwnerHeader, !.kind = "create", !.body = ValidCreate],
     [NoReq EXCEPT !.pc = "auth", !.hdr = OwnerHeader, !.kind = "delete", !.id = Target]}
    \cup {[NoReq EXCEPT !.pc = "auth", !.hdr = OwnerHeader, !.kind = "update", !.id = Target,
                        !.body = body] :
             body \in {[status |-> Str(validStatuses[3])], [status |-> Str(validStatuses[1])]}}

SnapshotInit ==
    /\ store \in SnapshotStores
    /\ transactions = SnapshotTransactions(store)
    /\ nextId = 1 + Cardinality({i \in SubIds : store[i] # <<>>})
    /\ reqs = NoReqs /\ issued = 0
    /\ now = Today
    /\ IdleQuery /\ IdleValidator /\ IdleList /\ IdleBilling /\ IdleRegister

ReceiveSnapshot(r) == Arrive(r, MaxIssued, SnapshotRequests)

SnapshotNext ==
    \E r \in Slots :
        \/ ReceiveSnapshot(r)
        \/ Auth(r)
        \/ ReadSnapshot(r)
        \/ Create(r)
        \/ CheckOwner(r)
        \/ Update(r)
        \/ Delete(r)

SpecSnapshot == SnapshotInit /\ [][SnapshotNext]_vars

\* the sum of the counts of a categoryBreakdown
RECURSIVE SumCounts(_)
SumCounts(breakdown) ==
    IF breakdown = <<>> THEN 0 ELSE breakdown[1].count + SumCounts(Tail(breakdown))

AnsweredAnalytics(r) ==
    reqs[r].pc = "done" /\ reqs[r].kind = "analytics" /\ reqs[r].status = 200

\* C25: every analytics response has inactiveSubscriptions =
\* totalSubscriptions - activeSubscriptions >= 0, activeSubscriptions = the
\* sum of the categoryBreakdown counts, and upcomingRenewals.count <=
\* activeSubscriptions, whatever create, update and delete requests of the
\* same user ran between its five queries.
C25_SnapshotConsistent ==
    \A r \in Slots : AnsweredAnalytics(r) =>
        \A d \in {reqs[r].data[1]} :
            /\ d.overview.inactiveSubscriptions
                 = d.overview.totalSubscriptions - d.overview.activeSubscriptions
            /\ d.overview.inactiveSubscriptions >= 0
            /\ d.overview.activeSubscriptions = SumCounts(d.categoryBreakdown)
            /\ d.upcomingRenewals.count <= d.overview.activeSubscriptions

-----------------------------------------------------------------------------
(* SpecSpent: the same requests, one at a time *)

SpentNext ==
    \/ ReceiveSnapshot(1)
    \/ Auth(1)
    \/ ReadSnapshot(1)
    \/ Create(1)
    \/ CheckOwner(1)
    \/ Update(1)
    \/ Delete(1)

SpecSpent == SnapshotInit /\ [][SpentNext]_vars

\* the completed transactions of the subscriptions user has stored
CompletedOf(st, txs, user) ==
    {t \in txs : /\ t.status = "completed"
                 /\ \E id \in SubIds : /\ st[id] # <<>> /\ st[id][1].userId = user
                                       /\ t.subscriptionId = id}

\* C27: the totalSpent of an analytics response is the sum of the amounts
\* of the completed transactions of the requester's stored subscriptions
\* (0 when there are none; pending and failed ones and those of other
\* users' subscriptions left out); an update of a subscription's status
\* leaves that sum as it was, for every user; a delete removes the
\* subscription's transactions and no others.
C27_TotalSpent ==
    [][\A r \in Slots :
         /\ (AnsweredNow(r) /\ reqs[r].kind = "analytics" /\ reqs'[r].status = 200)
               => reqs'[r].data[1].overview.totalSpent
                     = SumAmounts(CompletedOf(store, transactions, reqs[r].user[1]))
         /\ (AnsweredNow(r) /\ reqs[r].kind = "update" /\ reqs'[r].status = 200)
               => \A u \in Users :
                     SumAmounts(CompletedOf(store', transactions', u))
                        = SumAmounts(CompletedOf(store, transactions, u))
         /\ (AnsweredNow(r) /\ reqs[r].kind = "delete" /\ reqs'[r].status = 200)
               => transactions' = {t \in transactions : t.subscriptionId # reqs[r].id}
      ]_vars

\* C27 witness: an analytics response with the two completed amounts of
\* subscription 1 as totalSpent, the subscription having been cancelled by
\* an update before
C27_Witness ==
    /\ AnsweredAnalytics(1)
    /\ store[Target] # <<>> /\ store[Target][1].status = validStatuses[3]
    /\ reqs[1].data[1].overview.totalSpent = 1599 + 401
    /\ \E t \in transactions : t.subscriptionId = Target /\ t.status = "pending"

-----------------------------------------------------------------------------
(* SpecTimeout: requests to GET /api/subscriptions under the request       *)
(* timeout middleware of app.js and the process handlers of server.js.     *)
(* Here a slot of reqs holds what the response object of the request has   *)
(* been through: sent is the sequence of the statuses of the responses     *)
(* written, outcome how the handler ended.                                 *)

NoCall == [pc |-> "idle", timer |-> "off", headersSent |-> FALSE, sent |-> <<>>,
           outcome |-> ""]

\* the major versions of express the application can be installed with: 4
\* ignores the promise an async handler returns, 5 passes its rejection to
\* next()
ExpressVersions == {4, 5}

\* process.exit(1) has not been called
Running == \A r \in Slots : reqs[r].outcome # "exit"

TimeoutInit ==
    /\ store = NoStore /\ nextId = 1 /\ issued = 0
    /\ reqs = [r \in Slots |-> NoCall]
    /\ IdleQuery /\ IdleValidator /\ IdleList /\ IdleClock /\ IdleBilling
    /\ IdleTransactions /\ IdleRegister

\* a request arrives: the middleware arms res.setTimeout(30000, ...) and
\* calls next(), the handler starts
CallArrives(r) ==
    /\ Running
    /\ reqs[r].pc \in {"idle", "done"}
    /\ issued < MaxIssued
    /\ issued' = issued + 1
    /\ reqs' = [reqs EXCEPT ![r] = [NoCall EXCEPT !.pc = "handler", !.timer = "armed"]]
    /\ UNCHANGED <<store, nextId, query, params, vdata, vmode, vresult, listUser, listed,
                   now, billing, advanced, users, regs, transactions>>

\* res.status(s).json(...) on a response whose headers are not sent yet
Written(call, s) == [call EXCEPT !.headersSent = TRUE, !.sent = Append(@, s)]

\* the callback of res.setTimeout: 408 if (!res.headersSent)
TimeoutFires(r) ==
    /\ Running
    /\ reqs[r].timer = "armed"
    /\ reqs' = [reqs EXCEPT ![r] =
           IF ~reqs[r].headersSent
           THEN [Written(@, 408) EXCEPT !.timer = "fired"]
           ELSE [@ EXCEPT !.timer = "fired"]]
    /\ UNCHANGED <<store, nextId, issued, query, params, vdata, vmode, vresult, listUser,
                   listed, now, billing, advanced, users, regs, transactions>>

\* the promise of the async handler rejects: express 4 leaves the rejection
\* unhandled and process.on('unhandledRejection') calls process.exit(1);
\* express 5 passes it to the error-handling middleware, whose
\* res.status(500).json throws in turn, and the socket is destroyed
Rejection(express) == IF express = 4 THEN "exit" ELSE "destroyed"

\* the queries of the handler resolve (ok) or reject, and the handler goes
\* on: res.json(...) in the try block, res.status(500).json(...) in the
\* catch block. On a response whose headers are sent res.json throws, in
\* the try block and again in the catch block
HandlerCompletes(r) ==
    /\ Running
    /\ reqs[r].pc = "handler"
    /\ \E ok \in BOOLEAN, express \in ExpressVersions :
          reqs' = [reqs EXCEPT ![r] =
              IF ~reqs[r].headersSent
              THEN [Written(@, IF ok THEN 200 ELSE 500) EXCEPT
                        !.pc = "done", !.outcome = "responded"]
              ELSE [@ EXCEPT !.pc = "done", !.outcome = Rejection(express)]]
    /\ UNCHANGED <<store, nextId, issued, query, params, vdata, vmode, vresult, listUser,
                   listed, now, billing, advanced, users, regs, transactions>>

TimeoutNext ==
    \E r \in Slots :
        \/ CallArrives(r)
        \/ TimeoutFires(r)
        \/ HandlerCompletes(r)

SpecTimeout == TimeoutInit /\ [][TimeoutNext]_vars

\* C29: whether the handler completes before or after the timeout callback
\* fires, at most one response is written for a request, a 408 only by the
\* callback and as the first response; and a handler that completes after
\* the 408 neither writes a second response nor ends in an unhandled
\* rejection that makes the process exit.
C29_TimeoutSurvivable ==
    \A r \in Slots :
        /\ Len(reqs[r].sent) <= 1
        /\ (reqs[r].sent # <<>> /\ reqs[r].sent[1] = 408) => reqs[r].timer = "fired"
        /\ reqs[r].outcome # "exit"

====
